---- MODULE Spec2Model ----
(***************************************************************************)
(* Verification model of the activity report generator                     *)
(* (saksham-shr/report-gen-aiml-ds).                                       *)
(*                                                                         *)
(* Three specifications share the variables below:                         *)
(*   SpecStore  the Record Store (services/database.py): the four child    *)
(*              collection saves, executed statement by statement on one   *)
(*              sqlite3 connection, with failure and interruption;         *)
(*   Spec       the section controller (ui/main_window.py and ui/forms):   *)
(*              the forms, the activity id they hold and their saves;      *)
(*   SpecVal    the validators (services/validation.py, models/report.py,  *)
(*              GeneralInfoForm.validate_form) applied to bounded inputs.  *)
(*                                                                         *)
(* Conventions.  Python None for an identifier is NoId (0, falsy like      *)
(* None); None for a column or text value is Null; the empty string is "". *)
(* A table is the sequence of its rows in rowid order: every child table   *)
(* is declared INTEGER PRIMARY KEY AUTOINCREMENT, so an inserted row gets  *)
(* a rowid above every existing one and a SELECT without ORDER BY scans    *)
(* the rows in that order.  The rowid value itself is not kept.            *)
(* Date and time strings are sequences of one-character strings.           *)
(***************************************************************************)
EXTENDS Integers, Sequences, FiniteSets, TLC

VARIABLES
    db,                     \* committed content of the five tables
    conn,                   \* the connection a child save is running on
    current_activity_id,    \* MainWindow.current_activity_id
    current_form_index,     \* MainWindow.current_form_index
    form_activity_id,       \* forms[i].activity_id, i in 0..7
    general_form,           \* GeneralInfoForm input widgets
    speaker_widgets,        \* SpeakerDetailsForm.speaker_widgets
    participant_widgets,    \* ParticipantsForm.participant_widgets
    preparer_widgets,       \* ReportPreparedByForm.preparer_widgets
    photos,                 \* ActivityPhotosForm.photos
    synopsis_form,          \* SynopsisForm text edits
    profile_widgets,        \* SpeakerProfileForm.profile_widgets
    ret,                    \* the last handler run and what it returned
    complete_data,          \* input handed to a validator
    outcome,                \* what the validator returned
    pdf_form                \* GeneratePDFForm and its PDFGenerationWorker

store_vars == <<db, conn>>
ui_vars == <<current_activity_id, current_form_index, form_activity_id,
             general_form, speaker_widgets, participant_widgets,
             preparer_widgets, photos, synopsis_form, profile_widgets, ret>>
val_vars == <<complete_data, outcome, pdf_form>>
vars == <<db, conn, current_activity_id, current_form_index, form_activity_id,
          general_form, speaker_widgets, participant_widgets,
          preparer_widgets, photos, synopsis_form, profile_widgets, ret,
          complete_data, outcome, pdf_form>>

(***************************************************************************)
(* Bounds of the model.                                                    *)
(***************************************************************************)
MaxActivityId == 2
MaxSaves == 2
MaxHandlerRuns == 7

NoId == 0
Null == "NULL"

ActivityIds == 1..MaxActivityId

\* Python truthiness of a text value: None and '' are falsy.
Truthy(v) == v # Null /\ v # ""

\* dict.get(key): None when the key is absent.
Get(d, key) == IF key \in DOMAIN d THEN d[key] ELSE Null

\* dict.get(key, default)
GetOr(d, key, default) == IF key \in DOMAIN d THEN d[key] ELSE default

RECURSIVE SelectSeq2(_, _)
\* SELECT * FROM t WHERE activity_id = a, in rowid order.
SelectSeq2(rows, a) ==
    IF rows = <<>> THEN <<>>
    ELSE IF Head(rows).activity_id = a
         THEN <<Head(rows)>> \o SelectSeq2(Tail(rows), a)
         ELSE SelectSeq2(Tail(rows), a)

RECURSIVE DeleteWhere(_, _)
\* DELETE FROM t WHERE activity_id = a.
DeleteWhere(rows, a) ==
    IF rows = <<>> THEN <<>>
    ELSE IF Head(rows).activity_id = a
         THEN DeleteWhere(Tail(rows), a)
         ELSE <<Head(rows)>> \o DeleteWhere(Tail(rows), a)

(***************************************************************************)
(* Record Store: services/database.py                                      *)
(***************************************************************************)
ChildTables == {"speakers", "participants", "report_preparers", "activity_photos"}

\* The tuple bound to the INSERT of each save_<collection>.
SpeakerRow(activity_id, speaker) ==
    [activity_id |-> activity_id,
     name |-> Get(speaker, "name"),
     title_position |-> Get(speaker, "title_position"),
     profile_text |-> Get(speaker, "profile_text")]

\* (a participant without a count never becomes a row: count is NOT NULL)
ParticipantRow(activity_id, participant) ==
    [activity_id |-> activity_id,
     participant_type |-> Get(participant, "participant_type"),
     count |-> participant.count]

PreparerRow(activity_id, preparer) ==
    [activity_id |-> activity_id,
     name |-> Get(preparer, "name"),
     designation |-> Get(preparer, "designation")]

PhotoRow(activity_id, photo) ==
    [activity_id |-> activity_id,
     photo_path |-> Get(photo, "photo_path"),
     photo_type |-> GetOr(photo, "photo_type", "activity"),
     caption |-> Get(photo, "caption")]

InsertRow(table, activity_id, item) ==
    CASE table = "speakers" -> SpeakerRow(activity_id, item)
      [] table = "participants" -> ParticipantRow(activity_id, item)
      [] table = "report_preparers" -> PreparerRow(activity_id, item)
      [] table = "activity_photos" -> PhotoRow(activity_id, item)

\* The NOT NULL columns of the CREATE TABLE statements: an INSERT that binds
\* None to one of them raises sqlite3.IntegrityError.  The FOREIGN KEY
\* clauses of the child tables are declared only: get_connection never
\* executes PRAGMA foreign_keys = ON, and SQLite does not enforce them then.
NotNullOK(table, activity_id, item) ==
    /\ activity_id # NoId
    /\ CASE table = "speakers" -> Get(item, "name") # Null
         [] table = "participants" ->
                Get(item, "participant_type") # Null /\ "count" \in DOMAIN item
         [] table = "report_preparers" -> Get(item, "name") # Null
         [] table = "activity_photos" -> Get(item, "photo_path") # Null

\* get_speakers / get_participants / get_report_preparers / get_activity_photos:
\* a new connection reads the committed rows of the activity.
get_rows(table, activity_id) == SelectSeq2(db[table], activity_id)

get_speakers(activity_id) == get_rows("speakers", activity_id)
get_participants(activity_id) == get_rows("participants", activity_id)
get_report_preparers(activity_id) == get_rows("report_preparers", activity_id)
get_activity_photos(activity_id) == get_rows("activity_photos", activity_id)

(***************************************************************************)
(* One child save, statement by statement.  `with self.get_connection()    *)
(* as conn` runs the DELETE and the INSERTs in the transaction sqlite3     *)
(* opens before the first of them; conn.commit() makes them visible; an    *)
(* exception leaves the with-block through the connection's __exit__,      *)
(* which rolls back; a killed process leaves a journal that is rolled back *)
(* when the file is next opened.  conn.work is the table as the writing    *)
(* connection sees it, conn.pre its committed content when the call began. *)
(***************************************************************************)
IdleConn ==
    [pc |-> "idle", table |-> "speakers", activity_id |-> NoId, items |-> <<>>,
     pos |-> 1, work |-> <<>>, pre |-> <<>>, calls |-> 0]

InFlight(c) == c.pc \in {"delete", "insert"}

\* with self.get_connection() as conn:
OpenConn(d, c, table, activity_id, items) ==
    [db |-> d,
     conn |-> [pc |-> "delete", table |-> table, activity_id |-> activity_id,
               items |-> items, pos |-> 1, work |-> d[table], pre |-> d[table],
               calls |-> c.calls + 1]]

\* a mutant: DELETE FROM <table> without its WHERE clause
ExecDelete_unscoped(d, c) ==
    [db |-> d, conn |-> [c EXCEPT !.work = <<>>, !.pc = "insert"]]

\* a mutant: the connection in autocommit mode, the DELETE visible at once
ExecDelete_autocommit(d, c) ==
    [db |-> [d EXCEPT ![c.table] = DeleteWhere(c.work, c.activity_id)],
     conn |-> [c EXCEPT !.work = DeleteWhere(c.work, c.activity_id), !.pc = "insert"]]

\* a mutant: no DELETE, the new rows are added to the old ones
ExecDelete_merge(d, c) ==
    [db |-> d, conn |-> [c EXCEPT !.pc = "insert"]]

\* conn.execute('DELETE FROM <table> WHERE activity_id=?', (activity_id,))
ExecDelete(d, c) ==
    [db |-> d,
     conn |-> [c EXCEPT !.work = DeleteWhere(c.work, c.activity_id), !.pc = "insert"]]

\* one turn of `for item in items: conn.execute('INSERT ...')`, or, after the
\* last item, conn.commit() and the return
ExecInsertOrCommit(d, c) ==
    IF c.pos > Len(c.items)
    THEN [db |-> [d EXCEPT ![c.table] = c.work],
          conn |-> [c EXCEPT !.pc = "committed"]]
    ELSE IF NotNullOK(c.table, c.activity_id, c.items[c.pos])
    THEN [db |-> d,
          conn |-> [c EXCEPT !.work = Append(c.work,
                                 InsertRow(c.table, c.activity_id, c.items[c.pos])),
                             !.pos = c.pos + 1]]
    ELSE [db |-> d, conn |-> [c EXCEPT !.pc = "rolled_back"]]

\* the process is killed, or the call is left by any other exception
Abort(d, c) == [db |-> d, conn |-> [c EXCEPT !.pc = "rolled_back"]]

RECURSIVE RunToEnd(_, _)
RunToEnd(d, c) ==
    IF c.pc = "delete" THEN RunToEnd(ExecDelete(d, c).db, ExecDelete(d, c).conn)
    ELSE IF c.pc = "insert"
         THEN RunToEnd(ExecInsertOrCommit(d, c).db, ExecInsertOrCommit(d, c).conn)
         ELSE [db |-> d, conn |-> c]

\* save_speakers / save_participants / save_report_preparers /
\* save_activity_photos run without interruption: ok is FALSE when the call
\* raised.
save_collection(d, table, activity_id, items) ==
    LET end == RunToEnd(OpenConn(d, IdleConn, table, activity_id, items).db,
                        OpenConn(d, IdleConn, table, activity_id, items).conn)
    IN [ok |-> end.conn.pc = "committed", db |-> end.db]

save_speakers(d, activity_id, speakers) ==
    save_collection(d, "speakers", activity_id, speakers)
save_participants(d, activity_id, participants) ==
    save_collection(d, "participants", activity_id, participants)
save_report_preparers(d, activity_id, preparers) ==
    save_collection(d, "report_preparers", activity_id, preparers)
save_activity_photos(d, activity_id, photo_list) ==
    save_collection(d, "activity_photos", activity_id, photo_list)

\* The collections a caller hands to a save in SpecStore: an empty one, a
\* single row, two rows in an order that is not the order of a previous save,
\* and one whose second row lacks a NOT NULL column.
GoodItems(table) ==
    CASE table = "speakers" ->
            <<[name |-> "Dr. A", profile_text |-> Null],
              [name |-> "Dr. B", profile_text |-> "bio"]>>
      [] table = "participants" ->
            <<[participant_type |-> "faculty", count |-> 3],
              [participant_type |-> "student", count |-> 40]>>
      [] table = "report_preparers" ->
            <<[name |-> "B", designation |-> "Lecturer"],
              [name |-> "C", designation |-> Null]>>
      [] table = "activity_photos" ->
            <<[photo_path |-> "p1.jpg", photo_type |-> "speaker", caption |-> ""],
              [photo_path |-> "p2.jpg"]>>

BadItem(table) ==
    CASE table = "speakers" -> [profile_text |-> "bio"]
      [] table = "participants" -> [count |-> 3]
      [] table = "report_preparers" -> [designation |-> "Lecturer"]
      [] table = "activity_photos" -> [caption |-> "c"]

Collections(table) ==
    LET g == GoodItems(table)
    IN {<<>>, <<g[1]>>, <<g[2], g[1]>>, <<g[1], BadItem(table)>>}

\* what a row read back must be for the item it was saved from
Stored(table, activity_id, items) ==
    [i \in 1..Len(items) |-> InsertRow(table, activity_id, items[i])]

StoreInit ==
    /\ db = [activities |-> <<>>, speakers |-> <<>>, participants |-> <<>>,
             report_preparers |-> <<>>, activity_photos |-> <<>>]
    /\ conn = IdleConn

SaveCall(table, activity_id, items) ==
    /\ ~InFlight(conn)
    /\ conn.calls < MaxSaves
    /\ db' = OpenConn(db, conn, table, activity_id, items).db
    /\ conn' = OpenConn(db, conn, table, activity_id, items).conn
    /\ UNCHANGED <<ui_vars, val_vars>>

SaveDelete ==
    /\ conn.pc = "delete"
    /\ db' = ExecDelete(db, conn).db
    /\ conn' = ExecDelete(db, conn).conn
    /\ UNCHANGED <<ui_vars, val_vars>>

SaveInsertOrCommit ==
    /\ conn.pc = "insert"
    /\ db' = ExecInsertOrCommit(db, conn).db
    /\ conn' = ExecInsertOrCommit(db, conn).conn
    /\ UNCHANGED <<ui_vars, val_vars>>

SaveAbort ==
    /\ InFlight(conn)
    /\ db' = Abort(db, conn).db
    /\ conn' = Abort(db, conn).conn
    /\ UNCHANGED <<ui_vars, val_vars>>

(***************************************************************************)
(* Sections: state after MainWindow.__init__ and the forms' constructors.  *)
(***************************************************************************)
FormIndexes == 0..7

\* SECTION_LIMITS of utils/constants.py: the minimum of each repeatable
\* section, as the validators and the forms' messages state them
min_speakers == 1
min_participants == 1
min_preparers == 1
min_photos == 2

\* SECTION_LIMITS maxima (bounds of the model)
MaxSpeakers == 2
MaxParticipants == 2
MaxPreparers == 2
MaxPhotos == 5

DigitChars == <<"0", "1", "2", "3", "4", "5", "6", "7", "8", "9">>
DigitVal(c) == (CHOOSE n \in 1..10 : DigitChars[n] = c) - 1
Pad2(n) == <<DigitChars[((n \div 10) % 10) + 1], DigitChars[(n % 10) + 1]>>

RECURSIVE Num(_)
\* the value of a sequence of digits
Num(s) == IF s = <<>> THEN 0
          ELSE 10 * Num(SubSeq(s, 1, Len(s) - 1)) + DigitVal(s[Len(s)])

AllDigits(s) == \A i \in 1..Len(s) : \E n \in 1..10 : DigitChars[n] = s[i]

DaysIn(y, m) ==
    IF m = 2 THEN (IF (y % 4 = 0 /\ y % 100 # 0) \/ y % 400 = 0 THEN 29 ELSE 28)
    ELSE IF m \in {4, 6, 9, 11} THEN 30 ELSE 31

\* a calendar date, ordered as QDate and datetime order dates
DateOrd(q) == q.y * 10000 + q.m * 100 + q.d
TimeOrd(t) == t.h * 60 + t.m

\* QDate.toString("yyyy-MM-dd"), QTime.toString("HH:mm")
QDateToString(q) ==
    Pad2(q.y \div 100) \o Pad2(q.y % 100) \o <<"-">> \o Pad2(q.m) \o <<"-">> \o Pad2(q.d)
QTimeToString(t) == Pad2(t.h) \o <<":">> \o Pad2(t.m)

\* QDate.fromString(s, "yyyy-MM-dd"): exactly four, two and two digits;
\* anything else gives an invalid QDate
QDateFromString(s) ==
    IF /\ Len(s) = 10 /\ s[5] = "-" /\ s[8] = "-"
       /\ AllDigits(SubSeq(s, 1, 4)) /\ AllDigits(SubSeq(s, 6, 7))
       /\ AllDigits(SubSeq(s, 9, 10))
       /\ Num(SubSeq(s, 1, 4)) >= 1
       /\ Num(SubSeq(s, 6, 7)) \in 1..12
       /\ Num(SubSeq(s, 9, 10)) \in 1..DaysIn(Num(SubSeq(s, 1, 4)), Num(SubSeq(s, 6, 7)))
    THEN [valid |-> TRUE, y |-> Num(SubSeq(s, 1, 4)), m |-> Num(SubSeq(s, 6, 7)),
          d |-> Num(SubSeq(s, 9, 10))]
    ELSE [valid |-> FALSE, y |-> 0, m |-> 0, d |-> 0]

\* QTime.fromString(s, "HH:mm")
QTimeFromString(s) ==
    IF /\ Len(s) = 5 /\ s[3] = ":"
       /\ AllDigits(SubSeq(s, 1, 2)) /\ AllDigits(SubSeq(s, 4, 5))
       /\ Num(SubSeq(s, 1, 2)) \in 0..23 /\ Num(SubSeq(s, 4, 5)) \in 0..59
    THEN [valid |-> TRUE, h |-> Num(SubSeq(s, 1, 2)), m |-> Num(SubSeq(s, 4, 5))]
    ELSE [valid |-> FALSE, h |-> 0, m |-> 0]

\* QDate.currentDate() on the day of the run, and the day after
Today == [y |-> 2025, m |-> 3, d |-> 5]
Tomorrow == [y |-> 2025, m |-> 3, d |-> 6]
QTime(h, m) == [h |-> h, m |-> m]

\* SpeakerWidget / ParticipantWidget / ReportPreparerWidget as constructed
EmptySpeaker == [name |-> "", title_position |-> ""]
EmptyParticipant == [participant_type |-> "", count |-> 1]
EmptyPreparer == [name |-> "", designation |-> ""]

\* GeneralInfoForm as cleared: "-- Select --" twice, today's date twice,
\* 09:00, 17:00, empty line edits
ClearedGeneral ==
    [activity_type |-> "", sub_category |-> "", sub_category_other |-> "",
     start_date |-> Today, end_date |-> Today,
     start_time |-> QTime(9, 0), end_time |-> QTime(17, 0), venue |-> ""]

ClearedSynopsis == [highlights |-> "", summary |-> ""]

\* None where a date or time string is expected
NoneSeq == <<"None">>
TruthyS(s) == s # NoneSeq /\ s # <<>>

\* a value that is not a str (an int such as 20250305): truthy, and a
\* TypeError for strptime, re.match and re.sub, as None is
NotAStr == <<"int">>
IsStr(s) == s # NoneSeq /\ s # NotAStr

\* str.strip() on the texts of the model
Strip(v) == IF v \in {" ", "  "} THEN "" ELSE v

\* the null QDate / QTime, the only falsy ones
NullQDate == [y |-> 0, m |-> 0, d |-> 0]
NullQTime == [h |-> 0 - 1, m |-> 0 - 1]

\* ACTIVITY_TYPES and SUB_CATEGORIES of utils/constants.py (the item texts of
\* the two combo boxes)
ACTIVITY_TYPES == {"Workshop", "Seminar"}
SUB_CATEGORIES == {"Technical", "Other"}

(***************************************************************************)
(* The activities table: row i of the sequence is the row with id = i (the *)
(* key is AUTOINCREMENT and no code deletes an activity).                  *)
(***************************************************************************)
TextColumns == {"activity_type", "sub_category", "sub_category_other", "venue",
                "highlights", "summary"}
DateColumns == {"start_date", "end_date", "start_time", "end_time"}

\* the tuple save_activity binds: activity_data.get(column) for each column
ActivityRow(activity_data) ==
    [c \in TextColumns \cup DateColumns |->
        IF c \in DOMAIN activity_data THEN activity_data[c]
        ELSE IF c \in DateColumns THEN NoneSeq ELSE Null]

\* activity_type and start_date are NOT NULL
ActivityNotNullOK(row) == row.activity_type # Null /\ row.start_date # NoneSeq

\* save_activity without its UPDATE branch: every call INSERTs
save_activity_reinsert(d, activity_data) ==
    IF ActivityNotNullOK(ActivityRow(activity_data))
    THEN [raised |-> FALSE, activity_id |-> Len(d.activities) + 1,
          db |-> [d EXCEPT !.activities = Append(@, ActivityRow(activity_data))]]
    ELSE [raised |-> TRUE, activity_id |-> NoId, db |-> d]

\* DatabaseService.save_activity: UPDATE when activity_data['id'] is truthy,
\* INSERT otherwise; raised is TRUE when sqlite3 raised IntegrityError
save_activity(d, activity_data) ==
    IF "id" \in DOMAIN activity_data /\ activity_data.id # NoId
    THEN IF activity_data.id \in 1..Len(d.activities)
         THEN IF ActivityNotNullOK(ActivityRow(activity_data))
              THEN [raised |-> FALSE, activity_id |-> activity_data.id,
                    db |-> [d EXCEPT !.activities[activity_data.id] =
                                         ActivityRow(activity_data)]]
              ELSE [raised |-> TRUE, activity_id |-> NoId, db |-> d]
         ELSE [raised |-> FALSE, activity_id |-> activity_data.id, db |-> d]
    ELSE IF ActivityNotNullOK(ActivityRow(activity_data))
         THEN [raised |-> FALSE, activity_id |-> Len(d.activities) + 1,
               db |-> [d EXCEPT !.activities =
                                    Append(@, ActivityRow(activity_data))]]
         ELSE [raised |-> TRUE, activity_id |-> NoId, db |-> d]

\* DatabaseService.get_activity
get_activity(d, activity_id) ==
    IF activity_id \in 1..Len(d.activities)
    THEN [found |-> TRUE, row |-> d.activities[activity_id]]
    ELSE [found |-> FALSE, row |-> ActivityRow([id |-> NoId])]

(***************************************************************************)
(* GeneralInfoForm (form 0)                                                *)
(***************************************************************************)
general_validate_form(g) ==
    (IF ~Truthy(g.activity_type) THEN <<"Activity type is required">> ELSE <<>>)
    \o (IF g.start_date = NullQDate THEN <<"Start date is required">> ELSE <<>>)
    \o (IF g.end_date # NullQDate /\ g.start_date # NullQDate
           /\ DateOrd(g.end_date) < DateOrd(g.start_date)
        THEN <<"End date cannot be before start date">> ELSE <<>>)
    \o (IF g.start_date = g.end_date
           /\ g.start_time # NullQTime /\ g.end_time # NullQTime
           /\ TimeOrd(g.end_time) < TimeOrd(g.start_time)
        THEN <<"End time cannot be before start time on the same day">>
        ELSE <<>>)
    \o (IF g.sub_category = "Other" /\ ~Truthy(Strip(g.sub_category_other))
        THEN <<"Please specify the sub category when 'Other' is selected">>
        ELSE <<>>)

general_get_form_data(g) ==
    [activity_type |-> g.activity_type,
     sub_category |-> g.sub_category,
     sub_category_other |->
        IF g.sub_category = "Other" THEN Strip(g.sub_category_other) ELSE Null,
     start_date |-> QDateToString(g.start_date),
     end_date |-> IF g.end_date # NullQDate THEN QDateToString(g.end_date)
                  ELSE NoneSeq,
     start_time |-> QTimeToString(g.start_time),
     end_time |-> QTimeToString(g.end_time),
     venue |-> IF Truthy(Strip(g.venue)) THEN Strip(g.venue) ELSE Null]

\* setCurrentText selects the item with that text if there is one;
\* setDate / setTime ignore an invalid value
general_set_form_data(g, data) ==
    LET sd == QDateFromString(data.start_date)
        ed == QDateFromString(data.end_date)
        st == QTimeFromString(data.start_time)
        et == QTimeFromString(data.end_time)
        sub == IF data.sub_category \in SUB_CATEGORIES
               THEN data.sub_category ELSE g.sub_category
    IN [activity_type |-> IF data.activity_type \in ACTIVITY_TYPES
                          THEN data.activity_type ELSE g.activity_type,
        sub_category |-> sub,
        sub_category_other |->
            IF data.sub_category = "Other"
            THEN (IF Truthy(data.sub_category_other)
                  THEN data.sub_category_other ELSE "")
            ELSE IF sub # g.sub_category THEN "" ELSE g.sub_category_other,
        start_date |-> IF TruthyS(data.start_date) /\ sd.valid
                       THEN [y |-> sd.y, m |-> sd.m, d |-> sd.d] ELSE g.start_date,
        end_date |-> IF TruthyS(data.end_date) /\ ed.valid
                     THEN [y |-> ed.y, m |-> ed.m, d |-> ed.d] ELSE g.end_date,
        start_time |-> IF TruthyS(data.start_time) /\ st.valid
                       THEN QTime(st.h, st.m) ELSE g.start_time,
        end_time |-> IF TruthyS(data.end_time) /\ et.valid
                     THEN QTime(et.h, et.m) ELSE g.end_time,
        venue |-> IF Truthy(data.venue) THEN data.venue ELSE ""]

RECURSIVE Concat(_)
\* errors.append in a loop: the concatenation of the per-item error lists
Concat(ss) == IF ss = <<>> THEN <<>> ELSE Head(ss) \o Concat(Tail(ss))

\* `for w in self.widgets[:]: self.remove_<item>(w)`: remove_<item> refuses
\* once len(self.widgets) <= minimum, so the last `minimum` widgets stay
KeepMin(widgets, minimum) ==
    IF Len(widgets) > minimum
    THEN SubSeq(widgets, Len(widgets) - minimum + 1, Len(widgets))
    ELSE widgets

\* what a save_data handler returns, with the message box it showed
Result(ok, msg, d) == [ok |-> ok, msg |-> msg, db |-> d]

(***************************************************************************)
(* SpeakerDetailsForm (form 1).  title_position stands for the optional    *)
(* line edits of a SpeakerWidget (title, organization, contact,            *)
(* presentation title), which the code treats alike.                       *)
(***************************************************************************)
\* SpeakerWidget.get_data
speaker_get_data(w) ==
    [name |-> Strip(w.name),
     title_position |-> IF Truthy(Strip(w.title_position))
                        THEN Strip(w.title_position) ELSE Null]

\* SpeakerWidget.set_data: setText(None) raises TypeError, after the edits
\* before it were set
speaker_set_data(w, data) ==
    IF data.title_position = Null
    THEN [raised |-> TRUE, widget |-> [w EXCEPT !.name = data.name]]
    ELSE [raised |-> FALSE,
          widget |-> [name |-> data.name, title_position |-> data.title_position]]

\* SpeakerWidget.is_valid
speaker_is_valid(w) == Truthy(Strip(w.name))

\* SpeakerDetailsForm.add_speaker
add_speaker(widgets) ==
    IF Len(widgets) >= MaxSpeakers THEN widgets ELSE Append(widgets, EmptySpeaker)

\* SpeakerDetailsForm.remove_speaker of the k-th widget
remove_speaker(widgets, k) ==
    IF Len(widgets) <= min_speakers THEN widgets
    ELSE [i \in 1..(Len(widgets) - 1) |-> IF i < k THEN widgets[i] ELSE widgets[i + 1]]

RECURSIVE speakers_add_rows(_, _)
\* the loop of set_form_data over the rows read
speakers_add_rows(widgets, rows) ==
    IF rows = <<>> \/ Len(widgets) >= MaxSpeakers
    THEN [raised |-> FALSE, widgets |-> widgets]
    ELSE LET sd == speaker_set_data(EmptySpeaker, Head(rows))
         IN IF sd.raised
            THEN [raised |-> TRUE, widgets |-> Append(widgets, sd.widget)]
            ELSE speakers_add_rows(Append(widgets, sd.widget), Tail(rows))

speakers_set_form_data(widgets, rows) ==
    speakers_add_rows(KeepMin(widgets, min_speakers), rows)

\* SpeakerDetailsForm.load_data (an exception is caught and reported)
speakers_load_data(widgets, d, activity_id) ==
    IF activity_id = NoId THEN widgets
    ELSE IF SelectSeq2(d.speakers, activity_id) # <<>>
         THEN speakers_set_form_data(widgets, SelectSeq2(d.speakers, activity_id)).widgets
         ELSE widgets

speakers_clear_form(widgets) == add_speaker(KeepMin(widgets, min_speakers))

speakers_validate_form(widgets) ==
    (IF Len(widgets) = 0 THEN <<"At least one speaker is required">> ELSE <<>>)
    \o Concat([i \in 1..Len(widgets) |->
                 IF ~speaker_is_valid(widgets[i])
                 THEN <<"Speaker " \o ToString(i) \o ": Name is required">>
                 ELSE <<>>])

speakers_get_form_data(widgets) ==
    [i \in 1..Len(widgets) |-> speaker_get_data(widgets[i])]

\* a mutant: save_data without the activity_id guard
speakers_save_data_unguarded(widgets, d, activity_id) ==
    IF speakers_validate_form(widgets) # <<>>
    THEN Result(FALSE, "Validation Error", d)
    ELSE IF save_speakers(d, activity_id, speakers_get_form_data(widgets)).ok
         THEN Result(TRUE, "Success",
                     save_speakers(d, activity_id, speakers_get_form_data(widgets)).db)
         ELSE Result(FALSE, "Error", d)

\* SpeakerDetailsForm.save_data
speakers_save_data(widgets, d, activity_id) ==
    IF activity_id = NoId THEN Result(FALSE, "No Activity", d)
    ELSE IF speakers_validate_form(widgets) # <<>>
    THEN Result(FALSE, "Validation Error", d)
    ELSE IF save_speakers(d, activity_id, speakers_get_form_data(widgets)).ok
         THEN Result(TRUE, "Success",
                     save_speakers(d, activity_id, speakers_get_form_data(widgets)).db)
         ELSE Result(FALSE, "Error", d)

(***************************************************************************)
(* ReportPreparedByForm (form 4)                                           *)
(***************************************************************************)
preparer_get_data(w) == [name |-> Strip(w.name), designation |-> Strip(w.designation)]

preparer_set_data(w, data) ==
    IF data.name = Null THEN [raised |-> TRUE, widget |-> w]
    ELSE IF data.designation = Null
    THEN [raised |-> TRUE, widget |-> [w EXCEPT !.name = data.name]]
    ELSE [raised |-> FALSE,
          widget |-> [name |-> data.name, designation |-> data.designation]]

preparer_is_valid(w) == Truthy(Strip(w.name)) /\ Truthy(Strip(w.designation))

add_preparer(widgets) ==
    IF Len(widgets) >= MaxPreparers THEN widgets ELSE Append(widgets, EmptyPreparer)

RECURSIVE preparers_add_rows(_, _)
preparers_add_rows(widgets, rows) ==
    IF rows = <<>> \/ Len(widgets) >= MaxPreparers
    THEN [raised |-> FALSE, widgets |-> widgets]
    ELSE LET sd == preparer_set_data(EmptyPreparer, Head(rows))
         IN IF sd.raised
            THEN [raised |-> TRUE, widgets |-> Append(widgets, sd.widget)]
            ELSE preparers_add_rows(Append(widgets, sd.widget), Tail(rows))

preparers_set_form_data(widgets, rows) ==
    preparers_add_rows(KeepMin(widgets, min_preparers), rows)

preparers_load_data(widgets, d, activity_id) ==
    IF activity_id = NoId THEN widgets
    ELSE IF SelectSeq2(d.report_preparers, activity_id) # <<>>
         THEN preparers_set_form_data(widgets,
                  SelectSeq2(d.report_preparers, activity_id)).widgets
         ELSE widgets

preparers_clear_form(widgets) == add_preparer(KeepMin(widgets, min_preparers))

preparers_validate_form(widgets) ==
    (IF Len(widgets) = 0 THEN <<"At least one report preparer is required">> ELSE <<>>)
    \o Concat([i \in 1..Len(widgets) |->
                 IF ~preparer_is_valid(widgets[i])
                 THEN <<"Report Preparer " \o ToString(i)
                            \o ": Name and designation are required">>
                 ELSE <<>>])

preparers_get_form_data(widgets) ==
    [i \in 1..Len(widgets) |-> preparer_get_data(widgets[i])]

\* save_data writing the rows before it validates them
preparers_save_data_unvalidated(widgets, d, activity_id) ==
    IF activity_id = NoId THEN Result(FALSE, "No Activity", d)
    ELSE IF ~save_report_preparers(d, activity_id, preparers_get_form_data(widgets)).ok
    THEN Result(FALSE, "Error", d)
    ELSE IF preparers_validate_form(widgets) # <<>>
    THEN Result(FALSE, "Validation Error",
                save_report_preparers(d, activity_id,
                                      preparers_get_form_data(widgets)).db)
    ELSE Result(TRUE, "Success",
                save_report_preparers(d, activity_id,
                                      preparers_get_form_data(widgets)).db)

\* ReportPreparedByForm.save_data
preparers_save_data(widgets, d, activity_id) ==
    IF activity_id = NoId THEN Result(FALSE, "No Activity", d)
    ELSE IF preparers_validate_form(widgets) # <<>>
    THEN Result(FALSE, "Validation Error", d)
    ELSE IF save_report_preparers(d, activity_id, preparers_get_form_data(widgets)).ok
         THEN Result(TRUE, "Success",
                     save_report_preparers(d, activity_id,
                                           preparers_get_form_data(widgets)).db)
         ELSE Result(FALSE, "Error", d)

(***************************************************************************)
(* ParticipantsForm (form 2)                                               *)
(***************************************************************************)
\* the values of PARTICIPANT_TYPES of utils/constants.py
PARTICIPANT_TYPES == {"faculty", "student", "research_scholar"}

participant_get_data(w) == [participant_type |-> w.participant_type, count |-> w.count]

participant_is_valid(w) == Truthy(w.participant_type) /\ w.count > 0

\* ParticipantsForm.get_used_types
get_used_types(widgets) ==
    {widgets[i].participant_type : i \in {j \in 1..Len(widgets) :
                                            Truthy(widgets[j].participant_type)}}

\* ParticipantWidget.set_data on a widget whose combo box omits used_types.
\* setCurrentIndex on the item found emits currentTextChanged, whose slot
\* update_participant_types rebuilds this combo box without the type just
\* selected (it is among the used types), so the selection is lost; setValue
\* keeps the count within the spin box's 1..9999
participant_set_data(w, used_types, data) ==
    [participant_type |->
        IF data.participant_type \in PARTICIPANT_TYPES \ used_types
        THEN "" ELSE w.participant_type,
     count |-> IF data.count < 1 THEN 1
               ELSE IF data.count > 9999 THEN 9999 ELSE data.count]

add_participant(widgets) ==
    IF Len(widgets) >= MaxParticipants THEN widgets
    ELSE Append(widgets, EmptyParticipant)

RECURSIVE participants_add_rows(_, _)
participants_add_rows(widgets, rows) ==
    IF rows = <<>> \/ Len(widgets) >= MaxParticipants THEN widgets
    ELSE participants_add_rows(
             Append(widgets, participant_set_data(EmptyParticipant,
                                                  get_used_types(widgets), Head(rows))),
             Tail(rows))

participants_set_form_data(widgets, rows) ==
    participants_add_rows(KeepMin(widgets, min_participants), rows)

participants_load_data(widgets, d, activity_id) ==
    IF activity_id = NoId THEN widgets
    ELSE IF SelectSeq2(d.participants, activity_id) # <<>>
         THEN participants_set_form_data(widgets,
                  SelectSeq2(d.participants, activity_id))
         ELSE widgets

participants_clear_form(widgets) ==
    add_participant(KeepMin(widgets, min_participants))

participants_validate_form(widgets) ==
    (IF Len(widgets) = 0 THEN <<"At least one participant type is required">>
     ELSE <<>>)
    \o Concat([i \in 1..Len(widgets) |->
                 IF ~participant_is_valid(widgets[i])
                 THEN <<"Participant Type " \o ToString(i)
                            \o ": Both type and count are required">>
                 ELSE <<>>])

participants_get_form_data(widgets) ==
    [i \in 1..Len(widgets) |-> participant_get_data(widgets[i])]

\* ParticipantsForm.save_data
participants_save_data(widgets, d, activity_id) ==
    IF activity_id = NoId THEN Result(FALSE, "No Activity", d)
    ELSE IF participants_validate_form(widgets) # <<>>
    THEN Result(FALSE, "Validation Error", d)
    ELSE IF save_participants(d, activity_id, participants_get_form_data(widgets)).ok
         THEN Result(TRUE, "Success",
                     save_participants(d, activity_id,
                                       participants_get_form_data(widgets)).db)
         ELSE Result(FALSE, "Error", d)

(***************************************************************************)
(* ActivityPhotosForm (form 6): self.photos, a list of                     *)
(* (photo_path, photo_type, caption)                                       *)
(***************************************************************************)
RECURSIVE add_photos(_, _)
\* ActivityPhotosForm.add_photos with "Activity" selected and no caption
add_photos(photo_list, photo_paths) ==
    IF photo_paths = <<>> \/ Len(photo_list) >= MaxPhotos THEN photo_list
    ELSE add_photos(Append(photo_list,
                           [photo_path |-> Head(photo_paths),
                            photo_type |-> "activity", caption |-> ""]),
                    Tail(photo_paths))

RECURSIVE photos_append_rows(_, _)
\* the loop of load_data: the stored photos are appended to self.photos
photos_append_rows(photo_list, rows) ==
    IF rows = <<>> \/ Len(photo_list) >= MaxPhotos THEN photo_list
    ELSE photos_append_rows(
             Append(photo_list,
                    [photo_path |-> Head(rows).photo_path,
                     photo_type |-> Head(rows).photo_type,
                     caption |-> Head(rows).caption]),
             Tail(rows))

\* a mutant: load_data that replaces self.photos by the stored photos
photos_load_data_replace(photo_list, d, activity_id) ==
    IF activity_id = NoId THEN photo_list
    ELSE photos_append_rows(<<>>, SelectSeq2(d.activity_photos, activity_id))

\* ActivityPhotosForm.load_data
photos_load_data(photo_list, d, activity_id) ==
    IF activity_id = NoId THEN photo_list
    ELSE photos_append_rows(photo_list, SelectSeq2(d.activity_photos, activity_id))

\* ActivityPhotosForm.clear_form: self.photos.clear() after the removals
photos_clear_form(photo_list) == SubSeq(KeepMin(photo_list, min_photos), 1, 0)

photos_validate_form(photo_list) ==
    IF Len(photo_list) < min_photos
    THEN <<"At least " \o ToString(min_photos)
               \o " photos are required for PDF generation">>
    ELSE <<>>

photos_get_form_data(photo_list) ==
    [i \in 1..Len(photo_list) |->
        [photo_path |-> photo_list[i].photo_path,
         photo_type |-> photo_list[i].photo_type,
         caption |-> photo_list[i].caption]]

\* ActivityPhotosForm.save_data
photos_save_data(photo_list, d, activity_id) ==
    IF activity_id = NoId THEN Result(FALSE, "No Activity", d)
    ELSE IF photos_validate_form(photo_list) # <<>>
    THEN Result(FALSE, "Validation Error", d)
    ELSE IF save_activity_photos(d, activity_id, photos_get_form_data(photo_list)).ok
         THEN Result(TRUE, "Success",
                     save_activity_photos(d, activity_id,
                                          photos_get_form_data(photo_list)).db)
         ELSE Result(FALSE, "Error", d)

(***************************************************************************)
(* SynopsisForm (form 3).  highlights and summary stand for the four text  *)
(* edits (highlights, key takeaway, summary, follow-up plan).              *)
(***************************************************************************)
synopsis_get_form_data(f) ==
    [highlights |-> IF Truthy(Strip(f.highlights)) THEN Strip(f.highlights) ELSE Null,
     summary |-> IF Truthy(Strip(f.summary)) THEN Strip(f.summary) ELSE Null]

\* SynopsisForm.set_form_data: setPlainText(None) raises TypeError
synopsis_set_form_data(f, data) ==
    IF data.highlights = Null THEN f
    ELSE IF data.summary = Null THEN [f EXCEPT !.highlights = data.highlights]
    ELSE [highlights |-> data.highlights, summary |-> data.summary]

synopsis_load_data(f, d, activity_id) ==
    IF activity_id = NoId THEN f
    ELSE IF get_activity(d, activity_id).found
         THEN synopsis_set_form_data(f, get_activity(d, activity_id).row)
         ELSE f

\* SynopsisForm.save_data: the stored row, updated with the form's fields,
\* is written back
synopsis_save_data(f, d, activity_id) ==
    IF activity_id = NoId THEN Result(FALSE, "No Activity", d)
    ELSE IF get_activity(d, activity_id).found
    THEN LET activity_data ==
                 [c \in TextColumns \cup DateColumns \cup {"id"} |->
                     IF c = "id" THEN activity_id
                     ELSE IF c \in DOMAIN synopsis_get_form_data(f)
                     THEN synopsis_get_form_data(f)[c]
                     ELSE get_activity(d, activity_id).row[c]]
         IN IF save_activity(d, activity_data).raised
            THEN Result(FALSE, "Error", d)
            ELSE Result(TRUE, "Success", save_activity(d, activity_data).db)
    ELSE Result(FALSE, "Activity not found", d)

(***************************************************************************)
(* SpeakerProfileForm (form 5)                                             *)
(***************************************************************************)
\* SpeakerProfileForm.sync_speakers: one SpeakerProfileWidget per stored
\* speaker, showing its stored profile text
sync_speakers(d, activity_id) ==
    IF activity_id = NoId THEN <<>>
    ELSE [i \in 1..Len(SelectSeq2(d.speakers, activity_id)) |->
            [name |-> SelectSeq2(d.speakers, activity_id)[i].name,
             profile_text |->
                IF Truthy(SelectSeq2(d.speakers, activity_id)[i].profile_text)
                THEN SelectSeq2(d.speakers, activity_id)[i].profile_text
                ELSE ""]]

\* SpeakerProfileForm.save_data: DatabaseService has no attribute `db`, so
\* the first use of self.db_service.db raises AttributeError, which is caught
profiles_save_data(widgets, d, activity_id) ==
    IF activity_id = NoId THEN Result(FALSE, "No Activity", d)
    ELSE Result(FALSE, "Error", d)

(***************************************************************************)
(* MainWindow.forms: the eight forms as one value, so that a handler of    *)
(* the window is a function of the forms and the database.                 *)
(***************************************************************************)
Forms ==
    [ids |-> form_activity_id, general |-> general_form,
     speakers |-> speaker_widgets, participants |-> participant_widgets,
     preparers |-> preparer_widgets, photos |-> photos,
     synopsis |-> synopsis_form, profiles |-> profile_widgets]

\* forms[i].clear_form(), for the forms that define it (all but GeneratePDFForm)
form_clear_form(i, F) ==
    CASE i = 0 -> [F EXCEPT !.general = ClearedGeneral]
      [] i = 1 -> [F EXCEPT !.speakers = speakers_clear_form(@)]
      [] i = 2 -> [F EXCEPT !.participants = participants_clear_form(@)]
      [] i = 3 -> [F EXCEPT !.synopsis = ClearedSynopsis]
      [] i = 4 -> [F EXCEPT !.preparers = preparers_clear_form(@)]
      [] i = 5 -> [F EXCEPT !.profiles = <<>>]
      [] i = 6 -> [F EXCEPT !.photos = photos_clear_form(@)]

\* forms[i].load_data(), for the forms that define it (all but GeneratePDFForm)
form_load_data(i, F, d) ==
    CASE i = 0 -> IF F.ids[0] # NoId /\ get_activity(d, F.ids[0]).found
                  THEN [F EXCEPT !.general =
                            general_set_form_data(@, get_activity(d, F.ids[0]).row)]
                  ELSE F
      [] i = 1 -> [F EXCEPT !.speakers = speakers_load_data(@, d, F.ids[1])]
      [] i = 2 -> [F EXCEPT !.participants = participants_load_data(@, d, F.ids[2])]
      [] i = 3 -> [F EXCEPT !.synopsis = synopsis_load_data(@, d, F.ids[3])]
      [] i = 4 -> [F EXCEPT !.preparers = preparers_load_data(@, d, F.ids[4])]
      [] i = 5 -> [F EXCEPT !.profiles = sync_speakers(d, F.ids[5])]
      [] i = 6 -> [F EXCEPT !.photos = photos_load_data(@, d, F.ids[6])]

HasFormMethods(i) == i \in 0..6

\* forms[i].set_activity_id(activity_id); GeneratePDFForm only shows a summary
form_set_activity_id(i, F, d, activity_id) ==
    IF i = 7 THEN [F EXCEPT !.ids[7] = activity_id]
    ELSE IF activity_id # NoId
    THEN form_load_data(i, [F EXCEPT !.ids[i] = activity_id], d)
    ELSE form_clear_form(i, [F EXCEPT !.ids[i] = activity_id])

RECURSIVE broadcast_from(_, _, _, _)
\* the loop of broadcast_activity_id from form i on
broadcast_from(i, F, d, activity_id) ==
    IF i > 7 THEN F
    ELSE broadcast_from(i + 1, form_set_activity_id(i, F, d, activity_id), d,
                        activity_id)

\* MainWindow.broadcast_activity_id: the forms afterwards
broadcast_activity_id(F, d, activity_id) == broadcast_from(0, F, d, activity_id)

RECURSIVE load_activity_from(_, _, _, _)
\* the loop of MainWindow.load_activity: set_activity_id, then load_data again
load_activity_from(i, F, d, activity_id) ==
    IF i > 7 THEN F
    ELSE load_activity_from(
             i + 1,
             IF HasFormMethods(i)
             THEN form_load_data(i, form_set_activity_id(i, F, d, activity_id), d)
             ELSE form_set_activity_id(i, F, d, activity_id),
             d, activity_id)

load_activity(F, d, activity_id) == load_activity_from(0, F, d, activity_id)

RECURSIVE create_new_activity_from(_, _, _)
\* the loop of MainWindow.create_new_activity: clear_form, set_activity_id(None);
\* it ends with AttributeError at the first form without clear_form
create_new_activity_from(i, F, d) ==
    IF i > 7 THEN [raised |-> FALSE, forms |-> F]
    ELSE IF ~HasFormMethods(i) THEN [raised |-> TRUE, forms |-> F]
    ELSE create_new_activity_from(
             i + 1, form_set_activity_id(i, form_clear_form(i, F), d, NoId), d)

\* GeneralInfoForm.save_data
general_save_data(F, d) ==
    IF general_validate_form(F.general) # <<>>
    THEN [ok |-> FALSE, msg |-> "Validation Error", db |-> d, forms |-> F,
          id |-> NoId]
    ELSE LET form_data == [c \in DOMAIN general_get_form_data(F.general) \cup {"id"} |->
                              IF c = "id" THEN F.ids[0]
                              ELSE general_get_form_data(F.general)[c]]
             saved == save_activity(d, form_data)
         IN IF saved.raised
            THEN [ok |-> FALSE, msg |-> "Error", db |-> d, forms |-> F, id |-> NoId]
            ELSE [ok |-> TRUE, msg |-> "Success", db |-> saved.db,
                  forms |-> [F EXCEPT !.ids[0] =
                                IF @ = NoId THEN saved.activity_id ELSE @],
                  id |-> saved.activity_id]

\* forms[i].save_data() for a child form i in 1..6
child_save_data(i, F, d) ==
    CASE i = 1 -> speakers_save_data(F.speakers, d, F.ids[1])
      [] i = 2 -> participants_save_data(F.participants, d, F.ids[2])
      [] i = 3 -> synopsis_save_data(F.synopsis, d, F.ids[3])
      [] i = 4 -> preparers_save_data(F.preparers, d, F.ids[4])
      [] i = 5 -> profiles_save_data(F.profiles, d, F.ids[5])
      [] i = 6 -> photos_save_data(F.photos, d, F.ids[6])

\* forms[i].save_data()
form_save_data(i, F, d) ==
    IF i = 0 THEN general_save_data(F, d)
    ELSE [ok |-> child_save_data(i, F, d).ok, msg |-> child_save_data(i, F, d).msg,
          db |-> child_save_data(i, F, d).db, forms |-> F, id |-> F.ids[i]]

\* MainWindow.closeEvent, reply Save: save_data() of forms i..6 in turn (the
\* Generate PDF form has none); each call with the database it ran on
RECURSIVE close_event_from(_, _, _)
close_event_from(i, F, d) ==
    IF ~HasFormMethods(i) THEN <<>>
    ELSE LET saved == form_save_data(i, F, d)
         IN <<[ok |-> saved.ok, msg |-> saved.msg, before |-> d, db |-> saved.db,
               forms |-> saved.forms]>>
            \o close_event_from(i + 1, saved.forms, saved.db)

\* MainWindow.show_form: the index shown afterwards
show_form(index, form_index, general_activity_id) ==
    IF form_index = 0 /\ index # 0 /\ general_activity_id = NoId THEN form_index
    ELSE IF index \in FormIndexes THEN index
    ELSE form_index

\* an error message of a check, with the section it is about
Err(section, text) == [section |-> section, text |-> text]

\* DatabaseService.get_full_activity_data of a stored activity
get_full_activity_data(d, activity_id) ==
    [activity |-> get_activity(d, activity_id).row,
     speakers |-> SelectSeq2(d.speakers, activity_id),
     participants |-> SelectSeq2(d.participants, activity_id),
     report_preparers |-> SelectSeq2(d.report_preparers, activity_id),
     photos |-> SelectSeq2(d.activity_photos, activity_id)]

\* GeneratePDFForm.validate_activity_data: the errors it lists; the generate
\* button is enabled exactly when there is none
form_validate_activity_data(activity_data) ==
    LET activity == activity_data.activity
        errors ==
            (IF ~Truthy(Get(activity, "activity_type"))
             THEN <<Err("activity", "Activity type is required")>> ELSE <<>>)
            \o (IF ~TruthyS(activity.start_date)
                THEN <<Err("activity", "Start date is required")>> ELSE <<>>)
            \o (IF Len(activity_data.speakers) = 0
                THEN <<Err("speakers", "At least one speaker is required")>>
                ELSE Concat([i \in 1..Len(activity_data.speakers) |->
                        IF ~Truthy(Get(activity_data.speakers[i], "name"))
                        THEN <<Err("speakers", "All speakers must have names")>>
                        ELSE <<>>]))
            \o (IF Len(activity_data.participants) = 0
                THEN <<Err("participants", "At least one participant type is required")>>
                ELSE <<>>)
            \o (IF Len(activity_data.photos) < 2
                THEN <<Err("photos", "At least 2 activity photos are required")>>
                ELSE <<>>)
            \o (IF Len(activity_data.report_preparers) = 0
                THEN <<Err("report_preparers", "At least one report preparer is required")>>
                ELSE Concat([i \in 1..Len(activity_data.report_preparers) |->
                        IF ~Truthy(Get(activity_data.report_preparers[i], "name"))
                           \/ ~Truthy(Get(activity_data.report_preparers[i], "designation"))
                        THEN <<Err("report_preparers",
                                   "All preparers must have names and designations")>>
                        ELSE <<>>]))
    IN [fn |-> "GeneratePDFForm.validate_activity_data", raised |-> FALSE,
        valid |-> errors = <<>>, errors |-> errors, warnings |-> <<>>]

\* GeneratePDFForm.load_activity_data on the form f (the record of PdfIdle):
\* nothing is checked without an activity id or when the activity is not
\* found; otherwise validate_activity_data sets the generate button
load_activity_data(f, d, activity_id) ==
    IF activity_id = NoId \/ ~get_activity(d, activity_id).found THEN f
    ELSE [f EXCEPT !.button_enabled =
              form_validate_activity_data(
                  get_full_activity_data(d, activity_id)).valid]

\* GeneratePDFForm.set_activity_id
generate_set_activity_id(f, d, activity_id) ==
    IF activity_id # NoId THEN load_activity_data(f, d, activity_id)
    ELSE [f EXCEPT !.button_enabled = FALSE]

\* MainWindow.initialize_forms on a window under construction, an object
\* whose attributes are the keys assigned so far: every form is constructed
\* with the window's activity id and hidden, then forms[0] is made the
\* current form and shown
initialize_forms(w) ==
    [form_activity_id |-> [i \in FormIndexes |-> w.current_activity_id],
     visible |-> {0}, current_form |-> 0] @@ w

\* MainWindow.show_form on such an object: its first statement reads
\* self.current_form_index, and reading an attribute that was never assigned
\* raises AttributeError
window_show_form(w, index) ==
    IF "current_form_index" \notin DOMAIN w THEN [raised |-> TRUE, window |-> w]
    ELSE LET shown == show_form(index, w.current_form_index, w.form_activity_id[0])
         IN [raised |-> FALSE,
             window |-> IF shown # index THEN w
                        ELSE [w EXCEPT !.visible = (@ \ {w.current_form}) \cup {index},
                                       !.current_form = index,
                                       !.current_form_index = index]]

\* MainWindow.setup_ui -> setup_content_area: the forms, then show_form(0)
setup_content_area(w) == window_show_form(initialize_forms(w), 0)

\* MainWindow.__init__: current_activity_id, setup_ui(), setup_connections(),
\* and only then current_form_index = 0
MainWindow_init ==
    LET built == setup_content_area([current_activity_id |-> NoId])
    IN IF built.raised THEN built
       ELSE [raised |-> FALSE,
             window |-> [current_form_index |-> 0] @@ built.window]

\* the record of a handler run: what it returned (ok, the message box shown),
\* the activity id it returned or was given, the id its form held before,
\* and the number of handlers run so far
Ret(op, ok, msg, id, before) ==
    [op |-> op, ok |-> ok, msg |-> msg, id |-> id, before |-> before,
     n |-> ret.n + 1]

\* the event loop takes the next event: the process has not been ended by an
\* exception raised in a slot, and the bound on handler runs is not reached
Running == ret.op \notin {"abort", "close_accepted"} /\ ret.n < MaxHandlerRuns

UIInit ==
    /\ current_activity_id = NoId
    /\ current_form_index = 0
    /\ form_activity_id = [i \in FormIndexes |-> NoId]
    /\ general_form = ClearedGeneral
    /\ speaker_widgets = <<EmptySpeaker>>
    /\ participant_widgets = <<EmptyParticipant>>
    /\ preparer_widgets = <<EmptyPreparer>>
    /\ photos = <<>>
    /\ synopsis_form = ClearedSynopsis
    /\ profile_widgets = <<>>
    /\ ret = [op |-> "init", ok |-> TRUE, msg |-> "", id |-> NoId, before |-> NoId,
              n |-> 0]

\* GeneratePDFForm after its constructor: generate_button disabled, no
\* worker, progress bar hidden; events are the signals of a worker queued
\* for the interaction thread, box the message box that is open
PdfIdle ==
    [button_enabled |-> FALSE, progress_visible |-> FALSE, progress |-> 0,
     box |-> "none", worker_ref |-> FALSE, thread |-> [pc |-> "none", emitted |-> 0],
     events |-> <<>>, started |-> 0, completed |-> 0, crashed |-> FALSE]

ValIdle ==
    /\ pdf_form = PdfIdle
    /\ complete_data = <<>>
    /\ outcome = [fn |-> "none", raised |-> FALSE, valid |-> TRUE, errors |-> <<>>, warnings |-> <<>>]

Init == StoreInit /\ UIInit /\ ValIdle

\* DatabaseService.save_activity called between two child saves: a new
\* activity, or another activity type for a stored one
SaveActivityCall(activity_data) ==
    /\ ~InFlight(conn)
    /\ "id" \notin DOMAIN activity_data => Len(db.activities) < MaxActivityId
    /\ ~save_activity(db, activity_data).raised
    /\ db' = save_activity(db, activity_data).db
    /\ db' # db
    /\ UNCHANGED <<conn, ui_vars, val_vars>>

StoreNext ==
    \/ \E table \in ChildTables, a \in ActivityIds :
            \E items \in Collections(table) : SaveCall(table, a, items)
    \/ SaveDelete
    \/ SaveInsertOrCommit
    \/ SaveAbort
    \/ \E activity_data \in
            {[activity_type |-> "Workshop", start_date |-> QDateToString(Today)],
             [id |-> 1, activity_type |-> "Seminar",
              start_date |-> QDateToString(Today)]} :
          SaveActivityCall(activity_data)

SpecStore == Init /\ [][StoreNext]_vars

(***************************************************************************)
(* Section controller: the handlers of MainWindow and of the forms.  A     *)
(* form's widgets and its save button can be used only while it is shown.  *)
(***************************************************************************)
\* what the user enters in the General Information form
GeneralInputs ==
    {[ClearedGeneral EXCEPT !.activity_type = "Workshop"],
     [ClearedGeneral EXCEPT !.activity_type = "Seminar", !.end_date = Tomorrow,
                            !.start_time = QTime(17, 0), !.end_time = QTime(9, 0),
                            !.venue = "Hall"],
     [ClearedGeneral EXCEPT !.activity_type = "Workshop", !.start_date = Tomorrow],
     [ClearedGeneral EXCEPT !.activity_type = "Workshop",
                            !.start_time = QTime(17, 0), !.end_time = QTime(9, 0)],
     [ClearedGeneral EXCEPT !.activity_type = "Workshop", !.sub_category = "Other",
                            !.sub_category_other = " "]}

SpeakerInputs ==
    {[name |-> "Dr. A", title_position |-> ""],
     [name |-> "Dr. B", title_position |-> "Prof"]}

PreparerInputs == {[name |-> "B", designation |-> "Lecturer"]}

SynopsisInputs == {[highlights |-> "h", summary |-> " "]}

PhotoPaths == {<<"p1.jpg">>, <<"p1.jpg", "p1.jpg">>}

SetForms(F) ==
    /\ form_activity_id' = F.ids
    /\ general_form' = F.general
    /\ speaker_widgets' = F.speakers
    /\ participant_widgets' = F.participants
    /\ preparer_widgets' = F.preparers
    /\ photos' = F.photos
    /\ synopsis_form' = F.synopsis
    /\ profile_widgets' = F.profiles

\* a save that would insert an activity beyond the bound is left out
WithinBound(i) ==
    i = 0 /\ form_activity_id[0] = NoId => Len(db.activities) < MaxActivityId

EditGeneral(g) ==
    /\ Running
    /\ current_form_index = 0
    /\ g # general_form
    /\ general_form' = g
    /\ ret' = Ret("edit", TRUE, "", NoId, NoId)
    /\ UNCHANGED <<db, conn, current_activity_id, current_form_index,
                   form_activity_id, speaker_widgets, participant_widgets,
                   preparer_widgets, photos, synopsis_form, profile_widgets,
                   val_vars>>

EditSpeaker(k, v) ==
    /\ Running
    /\ current_form_index = 1
    /\ k \in 1..Len(speaker_widgets)
    /\ speaker_widgets[k] # v
    /\ speaker_widgets' = [speaker_widgets EXCEPT ![k] = v]
    /\ ret' = Ret("edit", TRUE, "", NoId, NoId)
    /\ UNCHANGED <<db, conn, current_activity_id, current_form_index,
                   form_activity_id, general_form, participant_widgets,
                   preparer_widgets, photos, synopsis_form, profile_widgets,
                   val_vars>>

AddSpeaker ==
    /\ Running
    /\ current_form_index = 1
    /\ speaker_widgets' = add_speaker(speaker_widgets)
    /\ ret' = Ret("add_speaker", Len(speaker_widgets) < MaxSpeakers, "", NoId, NoId)
    /\ UNCHANGED <<db, conn, current_activity_id, current_form_index,
                   form_activity_id, general_form, participant_widgets,
                   preparer_widgets, photos, synopsis_form, profile_widgets,
                   val_vars>>

RemoveSpeaker(k) ==
    /\ Running
    /\ current_form_index = 1
    /\ k \in 1..Len(speaker_widgets)
    /\ speaker_widgets' = remove_speaker(speaker_widgets, k)
    /\ ret' = Ret("remove_speaker", Len(speaker_widgets) > min_speakers, "",
                  NoId, NoId)
    /\ UNCHANGED <<db, conn, current_activity_id, current_form_index,
                   form_activity_id, general_form, participant_widgets,
                   preparer_widgets, photos, synopsis_form, profile_widgets,
                   val_vars>>

\* the user picks type t in the combo box of participant widget k.
\* currentTextChanged runs ParticipantsForm.update_participant_types: every
\* widget, this one included, gets the used types, this one's new type among
\* them, and rebuilds its combo box without them, so the selection falls back
\* to "-- Select --".  The clear() and addItem() of the rebuild change the
\* current text again: if the toolkit emits currentTextChanged for them the
\* slot re-enters itself without end and the exception raised in the slot ends
\* the process; otherwise the handler returns.
SelectParticipantType(k, t) ==
    /\ Running
    /\ current_form_index = 2
    /\ k \in 1..Len(participant_widgets)
    /\ t \in PARTICIPANT_TYPES
    /\ \/ /\ participant_widgets' = [participant_widgets EXCEPT ![k].participant_type = ""]
          /\ ret' = Ret("select_type", TRUE, "", NoId, NoId)
       \/ /\ participant_widgets' = participant_widgets
          /\ ret' = Ret("abort", FALSE, "RecursionError", NoId, NoId)
    /\ UNCHANGED <<db, conn, current_activity_id, current_form_index,
                   form_activity_id, general_form, speaker_widgets,
                   preparer_widgets, photos, synopsis_form, profile_widgets,
                   val_vars>>

\* ParticipantsForm.add_participant (the "Add Participant Type" button)
AddParticipant ==
    /\ Running
    /\ current_form_index = 2
    /\ participant_widgets' = add_participant(participant_widgets)
    /\ ret' = Ret("add_participant", Len(participant_widgets) < MaxParticipants, "",
                  NoId, NoId)
    /\ UNCHANGED <<db, conn, current_activity_id, current_form_index,
                   form_activity_id, general_form, speaker_widgets,
                   preparer_widgets, photos, synopsis_form, profile_widgets,
                   val_vars>>

\* ParticipantsForm.remove_participant: refused at the minimum; otherwise the
\* widget is removed and update_participant_types rebuilds the combo boxes of
\* the others, with the two outcomes of SelectParticipantType
RemoveParticipant(k) ==
    /\ Running
    /\ current_form_index = 2
    /\ k \in 1..Len(participant_widgets)
    /\ IF Len(participant_widgets) <= min_participants
       THEN /\ participant_widgets' = participant_widgets
            /\ ret' = Ret("remove_participant", FALSE, "Minimum Required", NoId, NoId)
       ELSE /\ participant_widgets' =
                   SubSeq(participant_widgets, 1, k - 1)
                   \o SubSeq(participant_widgets, k + 1, Len(participant_widgets))
            /\ \/ ret' = Ret("remove_participant", TRUE, "", NoId, NoId)
               \/ ret' = Ret("abort", FALSE, "RecursionError", NoId, NoId)
    /\ UNCHANGED <<db, conn, current_activity_id, current_form_index,
                   form_activity_id, general_form, speaker_widgets,
                   preparer_widgets, photos, synopsis_form, profile_widgets,
                   val_vars>>

SetParticipantCount(k, n) ==
    /\ Running
    /\ current_form_index = 2
    /\ k \in 1..Len(participant_widgets)
    /\ participant_widgets[k].count # n
    /\ participant_widgets' = [participant_widgets EXCEPT ![k].count = n]
    /\ ret' = Ret("edit", TRUE, "", NoId, NoId)
    /\ UNCHANGED <<db, conn, current_activity_id, current_form_index,
                   form_activity_id, general_form, speaker_widgets,
                   preparer_widgets, photos, synopsis_form, profile_widgets,
                   val_vars>>

EditSynopsis(v) ==
    /\ Running
    /\ current_form_index = 3
    /\ synopsis_form # v
    /\ synopsis_form' = v
    /\ ret' = Ret("edit", TRUE, "", NoId, NoId)
    /\ UNCHANGED <<db, conn, current_activity_id, current_form_index,
                   form_activity_id, general_form, speaker_widgets,
                   participant_widgets, preparer_widgets, photos,
                   profile_widgets, val_vars>>

EditPreparer(k, v) ==
    /\ Running
    /\ current_form_index = 4
    /\ k \in 1..Len(preparer_widgets)
    /\ preparer_widgets[k] # v
    /\ preparer_widgets' = [preparer_widgets EXCEPT ![k] = v]
    /\ ret' = Ret("edit", TRUE, "", NoId, NoId)
    /\ UNCHANGED <<db, conn, current_activity_id, current_form_index,
                   form_activity_id, general_form, speaker_widgets,
                   participant_widgets, photos, synopsis_form, profile_widgets,
                   val_vars>>

AddPhotos(photo_paths) ==
    /\ Running
    /\ current_form_index = 6
    /\ photos' = add_photos(photos, photo_paths)
    /\ ret' = Ret("add_photos", Len(photos) + Len(photo_paths) <= MaxPhotos, "",
                  NoId, NoId)
    /\ UNCHANGED <<db, conn, current_activity_id, current_form_index,
                   form_activity_id, general_form, speaker_widgets,
                   participant_widgets, preparer_widgets, synopsis_form,
                   profile_widgets, val_vars>>

\* the save button of the form shown
SaveData(i) ==
    /\ Running
    /\ current_form_index = i
    /\ HasFormMethods(i)
    /\ WithinBound(i)
    /\ db' = form_save_data(i, Forms, db).db
    /\ SetForms(form_save_data(i, Forms, db).forms)
    /\ ret' = Ret(IF i = 0 THEN "general_save_data" ELSE "child_save_data",
                  form_save_data(i, Forms, db).ok, form_save_data(i, Forms, db).msg,
                  form_save_data(i, Forms, db).id, form_activity_id[i])
    /\ UNCHANGED <<conn, current_activity_id, current_form_index, val_vars>>

\* a click on sidebar item index
ShowForm(index) ==
    /\ Running
    /\ current_form_index' = show_form(index, current_form_index, form_activity_id[0])
    /\ ret' = Ret("show_form",
                  show_form(index, current_form_index, form_activity_id[0]) = index,
                  IF show_form(index, current_form_index, form_activity_id[0]) = index
                  THEN "" ELSE "Please Save General Information",
                  NoId, form_activity_id[0])
    /\ UNCHANGED <<db, conn, current_activity_id, form_activity_id, general_form,
                   speaker_widgets, participant_widgets, preparer_widgets, photos,
                   synopsis_form, profile_widgets, val_vars>>

\* the 30 s timer: MainWindow.auto_save
AutoSave ==
    /\ Running
    /\ WithinBound(current_form_index)
    /\ IF current_activity_id # NoId /\ HasFormMethods(current_form_index)
       THEN /\ db' = form_save_data(current_form_index, Forms, db).db
            /\ SetForms(form_save_data(current_form_index, Forms, db).forms)
            /\ ret' = Ret("auto_save",
                          form_save_data(current_form_index, Forms, db).ok,
                          form_save_data(current_form_index, Forms, db).msg,
                          form_save_data(current_form_index, Forms, db).id,
                          form_activity_id[current_form_index])
       ELSE /\ ret' = Ret("auto_save", FALSE, "", NoId, NoId)
            /\ UNCHANGED <<db, form_activity_id, general_form, speaker_widgets,
                           participant_widgets, preparer_widgets, photos,
                           synopsis_form, profile_widgets>>
    /\ UNCHANGED <<conn, current_activity_id, current_form_index, val_vars>>

\* the slot of GeneralInfoForm.activity_saved, given the id of a stored activity
BroadcastActivityId(activity_id) ==
    /\ Running
    /\ activity_id \in 1..Len(db.activities)
    /\ current_activity_id' = activity_id
    /\ SetForms(broadcast_activity_id(Forms, db, activity_id))
    /\ pdf_form' = generate_set_activity_id(pdf_form, db, activity_id)
    /\ ret' = Ret("broadcast_activity_id", TRUE, "", activity_id, NoId)
    /\ UNCHANGED <<db, conn, current_form_index, complete_data, outcome>>

\* MainWindow.load_activity of a stored activity
LoadActivity(activity_id) ==
    /\ Running
    /\ activity_id \in 1..Len(db.activities)
    /\ current_activity_id' = activity_id
    /\ SetForms(load_activity(Forms, db, activity_id))
    /\ pdf_form' = generate_set_activity_id(pdf_form, db, activity_id)
    /\ ret' = Ret("load_activity", TRUE, "", activity_id, NoId)
    /\ UNCHANGED <<db, conn, current_form_index, complete_data, outcome>>

\* MainWindow.closeEvent with the answer given to "Unsaved Changes"
CloseEvent(reply) ==
    /\ Running
    /\ WithinBound(0)
    /\ IF reply = "Save"
       THEN LET saves == close_event_from(0, Forms, db)
            IN /\ db' = saves[Len(saves)].db
               /\ SetForms(saves[Len(saves)].forms)
               /\ ret' = Ret("close_accepted", \A k \in 1..Len(saves) : saves[k].ok,
                             reply, NoId, NoId)
       ELSE /\ ret' = Ret(IF reply = "Cancel" THEN "close_ignored" ELSE "close_accepted",
                          TRUE, reply, NoId, NoId)
            /\ UNCHANGED <<db, form_activity_id, general_form, speaker_widgets,
                           participant_widgets, preparer_widgets, photos,
                           synopsis_form, profile_widgets>>
    /\ UNCHANGED <<conn, current_activity_id, current_form_index, val_vars>>

CreateNewActivity ==
    /\ Running
    /\ \/ /\ SetForms(create_new_activity_from(0, Forms, db).forms)
          /\ IF create_new_activity_from(0, Forms, db).raised
             THEN /\ ret' = Ret("create_new_activity", FALSE, "AttributeError",
                                NoId, NoId)
                  /\ UNCHANGED <<current_activity_id, current_form_index>>
             ELSE /\ current_activity_id' = NoId
                  /\ current_form_index' = show_form(0, current_form_index, NoId)
                  /\ ret' = Ret("create_new_activity", TRUE, "", NoId, NoId)
       \/ \* ParticipantsForm.clear_form removes a widget: the combo boxes of
          \* the others are rebuilt, as in RemoveParticipant
          /\ Len(participant_widgets) > min_participants
          /\ ret' = Ret("abort", FALSE, "RecursionError", NoId, NoId)
          /\ UNCHANGED <<current_activity_id, current_form_index, form_activity_id,
                         general_form, speaker_widgets, participant_widgets,
                         preparer_widgets, photos, synopsis_form, profile_widgets>>
    /\ UNCHANGED <<db, conn, val_vars>>

Next ==
    \/ \E g \in GeneralInputs : EditGeneral(g)
    \/ \E k \in 1..MaxSpeakers, v \in SpeakerInputs : EditSpeaker(k, v)
    \/ AddSpeaker
    \/ \E k \in 1..MaxSpeakers : RemoveSpeaker(k)
    \/ \E k \in 1..MaxParticipants, n \in 1..2 : SetParticipantCount(k, n)
    \/ \E k \in 1..MaxParticipants, t \in PARTICIPANT_TYPES : SelectParticipantType(k, t)
    \/ AddParticipant
    \/ \E k \in 1..MaxParticipants : RemoveParticipant(k)
    \/ \E v \in SynopsisInputs : EditSynopsis(v)
    \/ \E k \in 1..MaxPreparers, v \in PreparerInputs : EditPreparer(k, v)
    \/ \E photo_paths \in PhotoPaths : AddPhotos(photo_paths)
    \/ \E i \in FormIndexes : SaveData(i)
    \/ \E index \in FormIndexes : ShowForm(index)
    \/ AutoSave
    \/ \E activity_id \in ActivityIds : BroadcastActivityId(activity_id)
    \/ \E activity_id \in ActivityIds : LoadActivity(activity_id)
    \/ CreateNewActivity
    \/ \E reply \in {"Save", "Discard", "Cancel"} : CloseEvent(reply)

Spec == Init /\ [][Next]_vars

\* A session on a stored activity: General Info was filled in and saved, the
\* identifier was passed to the sections (broadcast_activity_id), Synopsis
\* was shown, filled in and saved.  Handler runs are counted from here.
Session ==
    LET F0 == [ids |-> [i \in FormIndexes |-> NoId],
               general |-> [ClearedGeneral EXCEPT !.activity_type = "Workshop"],
               speakers |-> <<EmptySpeaker>>, participants |-> <<EmptyParticipant>>,
               preparers |-> <<EmptyPreparer>>, photos |-> <<>>,
               synopsis |-> ClearedSynopsis, profiles |-> <<>>]
        d0 == [activities |-> <<>>, speakers |-> <<>>, participants |-> <<>>,
               report_preparers |-> <<>>, activity_photos |-> <<>>]
        general == general_save_data(F0, d0)
        F1 == broadcast_activity_id(general.forms, general.db, general.id)
        F2 == [F1 EXCEPT !.synopsis = [highlights |-> "k", summary |-> "s"]]
    IN form_save_data(3, F2, general.db)

InitSession ==
    /\ db = Session.db
    /\ conn = IdleConn
    /\ current_activity_id = Session.id
    /\ current_form_index = 3
    /\ form_activity_id = Session.forms.ids
    /\ general_form = Session.forms.general
    /\ speaker_widgets = Session.forms.speakers
    /\ participant_widgets = Session.forms.participants
    /\ preparer_widgets = Session.forms.preparers
    /\ photos = Session.forms.photos
    /\ synopsis_form = Session.forms.synopsis
    /\ profile_widgets = Session.forms.profiles
    /\ ret = [op |-> "child_save_data", ok |-> Session.ok, msg |-> Session.msg,
              id |-> Session.id, before |-> Session.id, n |-> 0]
    /\ ValIdle

\* the handlers of the two sections that write the activity row
NextSession ==
    \/ \E g \in GeneralInputs : EditGeneral(g)
    \/ \E v \in SynopsisInputs : EditSynopsis(v)
    \/ \E i \in {0, 3} : SaveData(i)
    \/ \E index \in {0, 3} : ShowForm(index)
    \/ AutoSave

SpecSession == InitSession /\ [][NextSession]_vars

(***************************************************************************)
(* Validators: services/validation.py and models/report.py.  An error is   *)
(* kept with the section whose check appended it; Texts gives the list the *)
(* code returns.                                                           *)
(***************************************************************************)

\* the positions of a separator in a string
Seps(s, c) == {i \in 1..Len(s) : s[i] = c}

\* a field of one or two digits, as the strptime patterns for %m %d %H %M
\* accept it
Field(s) == Len(s) \in 1..2 /\ AllDigits(s)

\* datetime.strptime(s, "%Y-%m-%d"): four digits, '-', one or two digits,
\* '-', one or two digits, and a date that exists; ok is FALSE for ValueError
StrpDate(s) ==
    IF /\ Cardinality(Seps(s, "-")) = 2
       /\ 5 \in Seps(s, "-")
       /\ AllDigits(SubSeq(s, 1, 4))
       /\ LET j == CHOOSE k \in Seps(s, "-") : k # 5
          IN /\ j > 5
             /\ Field(SubSeq(s, 6, j - 1))
             /\ Field(SubSeq(s, j + 1, Len(s)))
             /\ Num(SubSeq(s, 1, 4)) >= 1
             /\ Num(SubSeq(s, 6, j - 1)) \in 1..12
             /\ Num(SubSeq(s, j + 1, Len(s)))
                    \in 1..DaysIn(Num(SubSeq(s, 1, 4)), Num(SubSeq(s, 6, j - 1)))
    THEN LET j == CHOOSE k \in Seps(s, "-") : k # 5
         IN [ok |-> TRUE, y |-> Num(SubSeq(s, 1, 4)),
             m |-> Num(SubSeq(s, 6, j - 1)), d |-> Num(SubSeq(s, j + 1, Len(s)))]
    ELSE [ok |-> FALSE, y |-> 0, m |-> 0, d |-> 0]

\* datetime.strptime(s, "%H:%M")
StrpTime(s) ==
    IF /\ Cardinality(Seps(s, ":")) = 1
       /\ LET j == CHOOSE k \in Seps(s, ":") : TRUE
          IN /\ Field(SubSeq(s, 1, j - 1))
             /\ Field(SubSeq(s, j + 1, Len(s)))
             /\ Num(SubSeq(s, 1, j - 1)) \in 0..23
             /\ Num(SubSeq(s, j + 1, Len(s))) \in 0..59
    THEN LET j == CHOOSE k \in Seps(s, ":") : TRUE
         IN [ok |-> TRUE, h |-> Num(SubSeq(s, 1, j - 1)),
             m |-> Num(SubSeq(s, j + 1, Len(s)))]
    ELSE [ok |-> FALSE, h |-> 0, m |-> 0]

\* ValidationService.validate_date / validate_time
\* `except ValueError` does not catch the TypeError of a value that is no str
validate_date(date_str) ==
    [raised |-> ~IsStr(date_str), is_valid |-> IsStr(date_str) /\ StrpDate(date_str).ok]
validate_time(time_str) ==
    [raised |-> ~IsStr(time_str), is_valid |-> IsStr(time_str) /\ StrpTime(time_str).ok]

\* ValidationService.validate_email: local part, '@', domain, '.', two letters
\* or more; the letters and digits of the model are those of Letters, DigitChars
validate_email(email) ==
    LET Letters == {"a", "b", "c", "e", "m", "o", "x"}
        Local == Letters \cup {"0", "1", "2", "3", "4", "5", "6", "7", "8", "9",
                               ".", "_", "%", "+", "-"}
        Domain == Letters \cup {"0", "1", "2", "3", "4", "5", "6", "7", "8", "9",
                                ".", "-"}
    IN [raised |-> ~IsStr(email),
        is_valid |->
            /\ IsStr(email)
            /\ \E i \in 2..Len(email), j \in 1..Len(email) :
                  /\ email[i] = "@" /\ email[j] = "." /\ j > i + 1
                  /\ Len(email) - j >= 2
                  /\ \A k \in 1..(i - 1) : email[k] \in Local
                  /\ \A k \in (i + 1)..(j - 1) : email[k] \in Domain
                  /\ \A k \in (j + 1)..Len(email) : email[k] \in Letters]

\* ValidationService.validate_phone_number: 10 to 15 digits once blanks,
\* hyphens and parentheses are removed
validate_phone_number(phone) ==
    LET clean_phone == SelectSeq(phone, LAMBDA c : c \notin {" ", "-", "(", ")"})
    IN [raised |-> ~IsStr(phone),
        is_valid |-> /\ IsStr(phone)
                     /\ clean_phone # <<>> /\ AllDigits(clean_phone)
                     /\ Len(clean_phone) >= 10 /\ Len(clean_phone) <= 15]

\* a mutant: an end date equal to the start date is rejected as well
validate_date_range_strict(start_date, end_date) ==
    IF ~IsStr(start_date) \/ ~IsStr(end_date)
    THEN [raised |-> TRUE, is_valid |-> FALSE, error_msg |-> "TypeError"]
    ELSE IF ~StrpDate(start_date).ok \/ ~StrpDate(end_date).ok
    THEN [raised |-> FALSE, is_valid |-> FALSE, error_msg |-> "Invalid date format: ValueError"]
    ELSE IF DateOrd(StrpDate(end_date)) <= DateOrd(StrpDate(start_date))
    THEN [raised |-> FALSE, is_valid |-> FALSE, error_msg |-> "End date cannot be before start date"]
    ELSE [raised |-> FALSE, is_valid |-> TRUE, error_msg |-> ""]

\* ValidationService.validate_date_range; "ValueError" stands for str(e)
validate_date_range(start_date, end_date) ==
    IF ~IsStr(start_date) \/ ~IsStr(end_date)
    THEN [raised |-> TRUE, is_valid |-> FALSE, error_msg |-> "TypeError"]
    ELSE IF ~StrpDate(start_date).ok \/ ~StrpDate(end_date).ok
    THEN [raised |-> FALSE, is_valid |-> FALSE, error_msg |-> "Invalid date format: ValueError"]
    ELSE IF DateOrd(StrpDate(end_date)) < DateOrd(StrpDate(start_date))
    THEN [raised |-> FALSE, is_valid |-> FALSE, error_msg |-> "End date cannot be before start date"]
    ELSE [raised |-> FALSE, is_valid |-> TRUE, error_msg |-> ""]

\* ValidationService.validate_time_range
validate_time_range(start_time, end_time) ==
    IF ~IsStr(start_time) \/ ~IsStr(end_time)
    THEN [raised |-> TRUE, is_valid |-> FALSE, error_msg |-> "TypeError"]
    ELSE IF ~StrpTime(start_time).ok \/ ~StrpTime(end_time).ok
    THEN [raised |-> FALSE, is_valid |-> FALSE, error_msg |-> "Invalid time format: ValueError"]
    ELSE IF TimeOrd(StrpTime(end_time)) < TimeOrd(StrpTime(start_time))
    THEN [raised |-> FALSE, is_valid |-> FALSE, error_msg |-> "End time cannot be before start time"]
    ELSE [raised |-> FALSE, is_valid |-> TRUE, error_msg |-> ""]

\* the text_limits loop of the validate_* functions; a limit is the field, its
\* maximum length and field.replace('_', ' ').title()
length_errors(section, data, text_limits) ==
    Concat([i \in 1..Len(text_limits) |->
        IF Truthy(Get(data, text_limits[i][1]))
           /\ Len(Get(data, text_limits[i][1])) > text_limits[i][2]
        THEN <<Err(section, text_limits[i][3] \o " exceeds maximum length of "
                            \o ToString(text_limits[i][2]) \o " characters")>>
        ELSE <<>>])

\* `if not <validator>(value): errors.append(text)`: the exception the
\* validator raised ends the caller, and is kept as the last entry of its list
Checked(section, r, text) ==
    IF r.raised THEN <<Err("TypeError", "raised")>>
    ELSE IF ~r.is_valid THEN <<Err(section, text)>> ELSE <<>>

\* the entries appended before an exception ended the function, and the exception
UpToRaise(errors) ==
    IF \E i \in 1..Len(errors) : errors[i].section = "TypeError"
    THEN SubSeq(errors, 1, CHOOSE i \in 1..Len(errors) :
                               /\ errors[i].section = "TypeError"
                               /\ \A k \in 1..(i - 1) : errors[k].section # "TypeError")
    ELSE errors

\* ValidationService.validate_activity_data, on a dict holding every key
validate_activity_data(a) == UpToRaise(
    (IF ~Truthy(a.activity_type)
     THEN <<Err("activity", "Activity Type is required")>> ELSE <<>>)
    \o (IF ~TruthyS(a.start_date)
        THEN <<Err("activity", "Start Date is required")>> ELSE <<>>)
    \o (IF TruthyS(a.start_date)
        THEN Checked("activity", validate_date(a.start_date), "Invalid start date format")
        ELSE <<>>)
    \o (IF TruthyS(a.end_date)
        THEN Checked("activity", validate_date(a.end_date), "Invalid end date format")
        ELSE <<>>)
    \o (IF TruthyS(a.start_date) /\ TruthyS(a.end_date)
        THEN Checked("activity", validate_date_range(a.start_date, a.end_date),
                     validate_date_range(a.start_date, a.end_date).error_msg)
        ELSE <<>>)
    \o (IF TruthyS(a.start_time)
        THEN Checked("activity", validate_time(a.start_time), "Invalid start time format")
        ELSE <<>>)
    \o (IF TruthyS(a.end_time)
        THEN Checked("activity", validate_time(a.end_time), "Invalid end time format")
        ELSE <<>>)
    \o (IF a.start_date = a.end_date /\ TruthyS(a.start_time) /\ TruthyS(a.end_time)
        THEN Checked("activity", validate_time_range(a.start_time, a.end_time),
                     validate_time_range(a.start_time, a.end_time).error_msg)
        ELSE <<>>)
    \o length_errors("activity", a,
            <<<<"venue", 200, "Venue">>,
              <<"collaboration_sponsor", 500, "Collaboration Sponsor">>,
              <<"highlights", 2000, "Highlights">>,
              <<"key_takeaway", 2000, "Key Takeaway">>,
              <<"summary", 3000, "Summary">>,
              <<"follow_up_plan", 2000, "Follow Up Plan">>>>)
    \o (IF Get(a, "sub_category") = "Other" /\ ~Truthy(Get(a, "sub_category_other"))
        THEN <<Err("activity", "Please specify sub category when 'Other' is selected")>>
        ELSE <<>>))

\* ValidationService.validate_speaker_data; contact_info, when the dict has
\* it, is a string of characters
validate_speaker_data(speaker_data) == UpToRaise(
    (IF ~Truthy(Get(speaker_data, "name"))
     THEN <<Err("speakers", "Speaker name is required")>> ELSE <<>>)
    \o length_errors("speakers", speaker_data,
            <<<<"name", 100, "Name">>,
              <<"title_position", 100, "Title Position">>,
              <<"organization", 150, "Organization">>,
              <<"presentation_title", 200, "Presentation Title">>>>)
    \o (IF "contact_info" \in DOMAIN speaker_data /\ TruthyS(speaker_data.contact_info)
        THEN IF validate_email(speaker_data.contact_info).raised
             THEN <<Err("TypeError", "raised")>>
             ELSE IF ~validate_email(speaker_data.contact_info).is_valid
                     /\ ~validate_phone_number(speaker_data.contact_info).is_valid
             THEN <<Err("speakers",
                        "Contact information should be a valid email address or phone number")>>
             ELSE <<>>
        ELSE <<>>))

\* ValidationService.validate_participant_data.  count holds the number;
\* validate_participant_data with the upper comparison made inclusive
validate_participant_data_inclusive(participant_data) == UpToRaise(
    (IF ~Truthy(Get(participant_data, "participant_type"))
     THEN <<Err("participants", "Participant type is required")>> ELSE <<>>)
    \o (IF GetOr(participant_data, "count_type", "int") # "int"
           \/ GetOr(participant_data, "count", 0) <= 0
        THEN <<Err("participants", "Participant count must be a positive integer")>>
        ELSE <<>>)
    \o (IF GetOr(participant_data, "count_type", "int") \in {"NoneType", "str"}
        THEN <<Err("TypeError", "raised")>>
        ELSE IF GetOr(participant_data, "count", 0) >= 9999
        THEN <<Err("participants", "Participant count cannot exceed 9999")>> ELSE <<>>))

\* count_type, when the dict has it, is the type of a count that is no int
\* ("float" for the number + 0.5, "NoneType" or "str" for no number at all)
validate_participant_data(participant_data) == UpToRaise(
    (IF ~Truthy(Get(participant_data, "participant_type"))
     THEN <<Err("participants", "Participant type is required")>> ELSE <<>>)
    \o (IF GetOr(participant_data, "count_type", "int") # "int"
           \/ GetOr(participant_data, "count", 0) <= 0
        THEN <<Err("participants", "Participant count must be a positive integer")>>
        ELSE <<>>)
    \o (IF GetOr(participant_data, "count_type", "int") \in {"NoneType", "str"}
        THEN <<Err("TypeError", "raised")>>
        ELSE IF GetOr(participant_data, "count", 0) > 9999
                \/ (GetOr(participant_data, "count_type", "int") = "float"
                    /\ GetOr(participant_data, "count", 0) >= 9999)
        THEN <<Err("participants", "Participant count cannot exceed 9999")>> ELSE <<>>))

\* ValidationService.validate_report_preparer_data
validate_report_preparer_data(preparer_data) ==
    (IF ~Truthy(Get(preparer_data, "name"))
     THEN <<Err("report_preparers", "Preparer name is required")>> ELSE <<>>)
    \o (IF ~Truthy(Get(preparer_data, "designation"))
        THEN <<Err("report_preparers", "Preparer designation is required")>> ELSE <<>>)
    \o length_errors("report_preparers", preparer_data,
            <<<<"name", 100, "Name">>, <<"designation", 100, "Designation">>>>)

\* errors.append(f"{label} {i}: {error}") for the errors of item i
Prefixed(label, i, errors) ==
    [k \in 1..Len(errors) |->
        Err(errors[k].section, label \o " " \o ToString(i) \o ": " \o errors[k].text)]

\* ValidationService.validate_complete_activity_report
validate_complete_activity_report(data) ==
    LET activity_data == data.activity
        speakers == data.speakers
        participants == data.participants
        preparers == data.report_preparers
        errors == UpToRaise(
            validate_activity_data(activity_data)
            \o (IF speakers = <<>>
                THEN <<Err("speakers", "At least one speaker is required")>>
                ELSE Concat([i \in 1..Len(speakers) |->
                        Prefixed("Speaker", i,
                                 validate_speaker_data(speakers[i]))]))
            \o (IF participants = <<>>
                THEN <<Err("participants", "At least one participant type is required")>>
                ELSE Concat([i \in 1..Len(participants) |->
                        Prefixed("Participant Type", i,
                                 validate_participant_data(participants[i]))]))
            \o (IF preparers = <<>>
                THEN <<Err("report_preparers", "At least one report preparer is required")>>
                ELSE Concat([i \in 1..Len(preparers) |->
                        Prefixed("Report Preparer", i,
                                 validate_report_preparer_data(preparers[i]))])))
        raised == \E i \in 1..Len(errors) : errors[i].section = "TypeError"
        warnings ==
            (IF Len(data.photos) < 2
             THEN <<"Only " \o ToString(Len(data.photos))
                    \o " photo(s) uploaded. Minimum 2 recommended for PDF generation">>
             ELSE <<>>)
            \o (IF ~Truthy(Get(activity_data, "venue"))
                THEN <<"Venue not specified - recommended for complete report">> ELSE <<>>)
            \o (IF ~Truthy(Get(activity_data, "highlights"))
                   /\ ~Truthy(Get(activity_data, "summary"))
                THEN <<"No highlights or summary provided - recommended for complete report">> ELSE <<>>)
            \o (IF ~Truthy(Get(activity_data, "key_takeaway"))
                THEN <<"No key takeaways provided - recommended for complete report">> ELSE <<>>)
    IN [fn |-> "validate_complete_activity_report", raised |-> raised,
        valid |-> errors = <<>>, errors |-> errors, warnings |-> warnings]

\* CompleteActivityReport.validate_minimum_requirements; the method returns
\* the list of errors only
validate_minimum_requirements(report) ==
    LET errors ==
            (IF ~Truthy(report.activity.activity_type)
             THEN <<Err("activity", "Activity type is required")>> ELSE <<>>)
            \o (IF ~TruthyS(report.activity.start_date)
                THEN <<Err("activity", "Start date is required")>> ELSE <<>>)
            \o (IF Len(report.speakers) = 0
                THEN <<Err("speakers", "At least one speaker is required")>> ELSE <<>>)
            \o (IF \E i \in 1..Len(report.speakers) :
                        ~Truthy(Get(report.speakers[i], "name"))
                THEN <<Err("speakers", "All speakers must have a name")>> ELSE <<>>)
            \o (IF Len(report.participants) = 0
                THEN <<Err("participants", "At least one participant type is required")>>
                ELSE <<>>)
            \o (IF \E i \in 1..Len(report.participants) :
                        ~(report.participants[i].count > 0)
                THEN <<Err("participants", "All participant counts must be greater than 0")>>
                ELSE <<>>)
            \o (IF Len(report.photos) < min_photos
                THEN <<Err("photos",
                           "At least 2 activity photos are required for PDF generation")>>
                ELSE <<>>)
            \o (IF Len(report.report_preparers) = 0
                THEN <<Err("report_preparers", "At least one report preparer is required")>>
                ELSE <<>>)
            \o (IF \E i \in 1..Len(report.report_preparers) :
                        ~(Truthy(Get(report.report_preparers[i], "name"))
                          /\ Truthy(Get(report.report_preparers[i], "designation")))
                THEN <<Err("report_preparers",
                           "All report preparers must have name and designation")>>
                ELSE <<>>)
    IN [fn |-> "validate_minimum_requirements",
        raised |-> \E i \in 1..Len(report.participants) :
                      /\ GetOr(report.participants[i], "count_type", "int")
                             \in {"NoneType", "str"}
                      /\ \A k \in 1..(i - 1) : report.participants[k].count > 0,
        valid |-> errors = <<>>, errors |-> errors, warnings |-> <<>>]

\* PDFGeneratorService.validate_requirements: `participant.get('count', 0) > 0`
\* raises TypeError for a count that is None or a str
validate_requirements(activity_data) ==
    LET activity == activity_data.activity
        speakers == activity_data.speakers
        participants == activity_data.participants
        photos_ == activity_data.photos
        report_preparers == activity_data.report_preparers
        errors == UpToRaise(
            (IF ~Truthy(Get(activity, "activity_type"))
             THEN <<Err("activity", "Activity type is required")>> ELSE <<>>)
            \o (IF ~TruthyS(activity.start_date)
                THEN <<Err("activity", "Start date is required")>> ELSE <<>>)
            \o (IF Len(speakers) = 0
                THEN <<Err("speakers", "At least one speaker is required")>>
                ELSE Concat([i \in 1..Len(speakers) |->
                        IF ~Truthy(Get(speakers[i], "name"))
                        THEN <<Err("speakers",
                                   "Speaker " \o ToString(i) \o ": Name is required")>>
                        ELSE <<>>]))
            \o (IF Len(participants) = 0
                THEN <<Err("participants", "At least one participant type is required")>>
                ELSE Concat([i \in 1..Len(participants) |->
                        IF GetOr(participants[i], "count_type", "int")
                               \in {"NoneType", "str"}
                        THEN <<Err("TypeError", "raised")>>
                        ELSE IF ~(GetOr(participants[i], "count", 0) > 0
                                  \/ GetOr(participants[i], "count_type", "int") = "float")
                        THEN <<Err("participants",
                                   "All participant counts must be greater than 0")>>
                        ELSE <<>>]))
            \o (IF Len(report_preparers) = 0
                THEN <<Err("report_preparers", "At least one report preparer is required")>>
                ELSE Concat([i \in 1..Len(report_preparers) |->
                        IF ~Truthy(Get(report_preparers[i], "name"))
                        THEN <<Err("report_preparers",
                                   "All report preparers must have names")>>
                        ELSE <<>>])))
        warnings ==
            (IF Len(photos_) < 2
             THEN <<"Only " \o ToString(Len(photos_))
                    \o " photo(s) uploaded. Minimum 2 recommended for best report quality">>
             ELSE <<>>)
            \o (IF ~Truthy(Get(activity, "venue"))
                THEN <<"Venue not specified - recommended for complete report">> ELSE <<>>)
            \o (IF ~Truthy(Get(activity, "highlights"))
                   /\ ~Truthy(Get(activity, "summary"))
                THEN <<"No highlights or summary provided - recommended for complete report">>
                ELSE <<>>)
    IN [fn |-> "validate_requirements",
        raised |-> \E i \in 1..Len(errors) : errors[i].section = "TypeError",
        valid |-> errors = <<>>, errors |-> errors, warnings |-> warnings]

(***************************************************************************)
(* The validators applied to the inputs of a bounded family, one call in   *)
(* a behaviour.                                                            *)
(***************************************************************************)
MaxReportPhotos == 3

\* complete activity data.  Date strings: the two canonical ones, 2025-3-5 and
\* 2025-3-4 without the zero padding, a month 13, another format, the empty
\* string and None.  DateInputs have the sections other than the activity
\* satisfied; AggregateInputs have every section satisfied, missing or wrong.
ValInputs ==
    LET DateStrings ==
            {QDateToString(Today), QDateToString(Tomorrow),
             <<"2", "0", "2", "5", "-", "3", "-", "5">>,
             <<"2", "0", "2", "5", "-", "3", "-", "4">>,
             <<"2", "0", "2", "5", "-", "1", "3", "-", "0", "1">>,
             <<"0", "5", "/", "0", "3", "/", "2", "0", "2", "5">>,
             <<>>, NoneSeq, NotAStr}
        TimeStrings ==
            {QTimeToString(QTime(9, 0)), QTimeToString(QTime(10, 0)),
             <<"9", ":", "3", "0">>, <<"2", "5", ":", "0", "0">>, NoneSeq,
             NotAStr}
        BareActivity ==
            [activity_type |-> "Workshop", sub_category |-> Null,
             sub_category_other |-> Null,
             start_date |-> QDateToString(Today), end_date |-> NoneSeq,
             start_time |-> NoneSeq, end_time |-> NoneSeq,
             venue |-> Null, highlights |-> Null, summary |-> Null,
             key_takeaway |-> Null]
        StoredPhotos(k) ==
            [i \in 1..k |-> [photo_path |-> "p" \o ToString(i) \o ".jpg"]]
        DateInputs ==
            {[activity |-> [BareActivity EXCEPT !.start_date = sd, !.end_date = ed,
                                                !.start_time = st, !.end_time = et,
                                                !.venue = "Hall"],
              speakers |-> <<[name |-> "Dr. A"]>>,
              participants |-> <<[participant_type |-> "student", count |-> 40]>>,
              report_preparers |-> <<[name |-> "B", designation |-> "Lecturer"]>>,
              photos |-> StoredPhotos(min_photos)] :
                sd \in DateStrings, ed \in DateStrings,
                st \in TimeStrings, et \in TimeStrings}
        AggregateInputs ==
            {[activity |-> [BareActivity EXCEPT !.activity_type = ty,
                                                !.start_date = sd, !.sub_category = sc],
              speakers |-> sp, participants |-> pa, report_preparers |-> pr,
              photos |-> StoredPhotos(k)] :
                ty \in {Null, "Workshop"}, sd \in {NoneSeq, QDateToString(Today)},
                sc \in {Null, "Other"},
                sp \in {<<>>, <<[name |-> "Dr. A"]>>,
                        <<[name |-> "Dr. A"], [name |-> ""]>>},
                pa \in {<<>>, <<[participant_type |-> "student", count |-> 40]>>,
                        <<[participant_type |-> "student", count |-> 40],
                          [participant_type |-> "faculty", count |-> 0]>>},
                pr \in {<<>>, <<[name |-> "B", designation |-> "Lecturer"]>>,
                        <<[name |-> "B", designation |-> ""]>>},
                k \in 0..MaxReportPhotos}
        \* a speaker with contact information (an e-mail address, a phone
        \* number, neither, no str, None) and a participant whose count is
        \* no int (None, a str, 2.5) or too large
        ItemInputs ==
            {[activity |-> BareActivity,
              speakers |-> <<[name |-> "Dr. A", contact_info |-> ci]>>,
              participants |-> <<pa>>,
              report_preparers |-> <<[name |-> "B", designation |-> "Lecturer"]>>,
              photos |-> StoredPhotos(min_photos)] :
                ci \in {<<"a", "@", "b", ".", "c", "o", "m">>,
                        <<"0", "1", "2", "-", "3", "4", "5", "-", "6", "7", "8", "9">>,
                        <<"a", "b", "c">>, NotAStr, NoneSeq},
                pa \in {[participant_type |-> "student", count |-> 0,
                         count_type |-> "NoneType"],
                        [participant_type |-> "student", count |-> 0,
                         count_type |-> "str"],
                        [participant_type |-> "student", count |-> 2,
                         count_type |-> "float"],
                        [participant_type |-> "student", count |-> 10000]}
                       \cup {[participant_type |-> "student", count |-> n] :
                                n \in {-1, 0, 1, 9999, 10001}}}
    IN DateInputs \cup AggregateInputs \cup ItemInputs

\* what the General Information form holds when validate_form is called
FormInputs ==
    GeneralInputs \cup
    {[ClearedGeneral EXCEPT !.activity_type = "Workshop",
                            !.start_date = sd, !.end_date = ed,
                            !.start_time = st, !.end_time = et] :
        sd \in {Today, Tomorrow}, ed \in {Today, Tomorrow},
        st \in {QTime(9, 0), QTime(17, 0)}, et \in {QTime(9, 0), QTime(17, 0)}}

\* ValidationService.validate_activity_data(data['activity'])
ValidateActivityData ==
    /\ outcome.fn = "none"
    /\ outcome' = [fn |-> "validate_activity_data",
                   raised |-> \E i \in 1..Len(validate_activity_data(complete_data.activity)) :
                       validate_activity_data(complete_data.activity)[i].section = "TypeError",
                   valid |-> validate_activity_data(complete_data.activity) = <<>>,
                   errors |-> validate_activity_data(complete_data.activity),
                   warnings |-> <<>>]
    /\ UNCHANGED <<store_vars, ui_vars, complete_data, pdf_form>>

\* ValidationService.validate_complete_activity_report(data)
ValidateCompleteActivityReport ==
    /\ outcome.fn = "none"
    /\ outcome' = validate_complete_activity_report(complete_data)
    /\ UNCHANGED <<store_vars, ui_vars, complete_data, pdf_form>>

\* CompleteActivityReport(...).validate_minimum_requirements()
ValidateMinimumRequirements ==
    /\ outcome.fn = "none"
    /\ outcome' = validate_minimum_requirements(complete_data)
    /\ UNCHANGED <<store_vars, ui_vars, complete_data, pdf_form>>

\* PDFGeneratorService().validate_requirements(activity_data)
ValidateRequirements ==
    /\ outcome.fn = "none"
    /\ outcome' = validate_requirements(complete_data)
    /\ UNCHANGED <<store_vars, ui_vars, complete_data, pdf_form>>

\* GeneratePDFForm.validate_activity_data(activity_data)
FormValidateActivityData ==
    /\ outcome.fn = "none"
    /\ outcome' = form_validate_activity_data(complete_data)
    /\ UNCHANGED <<store_vars, ui_vars, complete_data, pdf_form>>

\* one of the validators of a single value, called with the activity's dates
\* and times or with the first speaker's contact information
ValidateValue(fn) ==
    LET a == complete_data.activity
        contact == IF complete_data.speakers # <<>>
                      /\ "contact_info" \in DOMAIN complete_data.speakers[1]
                   THEN complete_data.speakers[1].contact_info ELSE NoneSeq
        r == CASE fn = "validate_date" -> validate_date(a.start_date)
               [] fn = "validate_time" -> validate_time(a.start_time)
               [] fn = "validate_date_range" -> validate_date_range(a.start_date, a.end_date)
               [] fn = "validate_time_range" -> validate_time_range(a.start_time, a.end_time)
               [] fn = "validate_email" -> validate_email(contact)
               [] fn = "validate_phone_number" -> validate_phone_number(contact)
    IN /\ outcome.fn = "none"
       /\ outcome' = [fn |-> fn, raised |-> r.raised, valid |-> r.is_valid,
                      errors |-> IF r.raised \/ r.is_valid
                                    \/ fn \notin {"validate_date_range", "validate_time_range"}
                                 THEN <<>> ELSE <<Err("activity", r.error_msg)>>,
                      warnings |-> <<>>]
       /\ UNCHANGED <<store_vars, ui_vars, complete_data, pdf_form>>

\* one of the validators of an item, called with the first speaker, participant
\* or report preparer
ValidateItem(fn) ==
    LET errors ==
            CASE fn = "validate_speaker_data" ->
                     validate_speaker_data(complete_data.speakers[1])
              [] fn = "validate_participant_data" ->
                     validate_participant_data(complete_data.participants[1])
              [] fn = "validate_report_preparer_data" ->
                     validate_report_preparer_data(complete_data.report_preparers[1])
    IN /\ outcome.fn = "none"
       /\ complete_data.speakers # <<>> /\ complete_data.participants # <<>>
       /\ complete_data.report_preparers # <<>>
       /\ outcome' = [fn |-> fn,
                      raised |-> \E i \in 1..Len(errors) : errors[i].section = "TypeError",
                      valid |-> errors = <<>>, errors |-> errors, warnings |-> <<>>]
       /\ UNCHANGED <<store_vars, ui_vars, complete_data, pdf_form>>

\* GeneralInfoForm.validate_form()
ValidateForm ==
    /\ outcome.fn = "none"
    /\ outcome' = [fn |-> "validate_form", raised |-> FALSE,
                   valid |-> general_validate_form(general_form) = <<>>,
                   errors |-> [i \in 1..Len(general_validate_form(general_form)) |->
                                  Err("activity", general_validate_form(general_form)[i])],
                   warnings |-> <<>>]
    /\ UNCHANGED <<store_vars, ui_vars, complete_data, pdf_form>>

\* main(): MainWindow(db_service)
MainWindowInit ==
    /\ outcome.fn = "none"
    /\ outcome' = [fn |-> "MainWindow", raised |-> MainWindow_init.raised,
                   valid |-> ~MainWindow_init.raised, errors |-> <<>>,
                   warnings |-> <<>>, window |-> MainWindow_init.window]
    /\ UNCHANGED <<store_vars, ui_vars, complete_data, pdf_form>>

InitVal ==
    /\ StoreInit
    /\ current_activity_id = NoId
    /\ current_form_index = 0
    /\ form_activity_id = [i \in FormIndexes |-> NoId]
    /\ speaker_widgets = <<EmptySpeaker>>
    /\ participant_widgets = <<EmptyParticipant>>
    /\ preparer_widgets = <<EmptyPreparer>>
    /\ photos = <<>>
    /\ synopsis_form = ClearedSynopsis
    /\ profile_widgets = <<>>
    /\ ret = [op |-> "init", ok |-> TRUE, msg |-> "", id |-> NoId, before |-> NoId,
              n |-> 0]
    /\ complete_data \in ValInputs
    /\ pdf_form = PdfIdle
    /\ \/ general_form = ClearedGeneral
       \/ /\ general_form \in FormInputs
          /\ complete_data.activity.activity_type = Null
          /\ complete_data.activity.start_date = NoneSeq
          /\ complete_data.activity.sub_category = Null
          /\ complete_data.speakers = <<>> /\ complete_data.participants = <<>>
          /\ complete_data.report_preparers = <<>> /\ complete_data.photos = <<>>
    /\ outcome = [fn |-> "none", raised |-> FALSE, valid |-> TRUE, errors |-> <<>>, warnings |-> <<>>]

NextVal ==
    \/ MainWindowInit
    \/ ValidateActivityData
    \/ ValidateCompleteActivityReport
    \/ ValidateMinimumRequirements
    \/ ValidateRequirements
    \/ FormValidateActivityData
    \/ ValidateForm
    \/ \E fn \in {"validate_date", "validate_time", "validate_date_range",
                  "validate_time_range", "validate_email", "validate_phone_number"} :
            ValidateValue(fn)
    \/ \E fn \in {"validate_speaker_data", "validate_participant_data",
                  "validate_report_preparer_data"} : ValidateItem(fn)

SpecVal == InitVal /\ [][NextVal]_vars

(***************************************************************************)
(* Document assembly: models/report.py, models/participant.py and          *)
(* services/pdf_generator.py, as functions of complete activity data.      *)
(***************************************************************************)
MaxDocParticipants == 3
MaxStoredPhotos == 12

RECURSIVE JoinStr(_, _)
\* sep.join(parts)
JoinStr(sep, parts) ==
    IF parts = <<>> THEN ""
    ELSE IF Len(parts) = 1 THEN parts[1]
    ELSE parts[1] \o sep \o JoinStr(sep, Tail(parts))

RECURSIVE SumCounts(_)
\* sum(p.count for p in rows)
SumCounts(rows) == IF rows = <<>> THEN 0 ELSE Head(rows).count + SumCounts(Tail(rows))

\* Participant.display_type; str.title() of the one other type used here
display_type(participant_type) ==
    CASE participant_type = "faculty" -> "Faculty"
      [] participant_type = "student" -> "Students"
      [] participant_type = "research_scholar" -> "Research Scholars"
      [] participant_type = "alumni" -> "Alumni"
      [] OTHER -> participant_type

RECURSIVE type_counts_last(_)
\* type_counts with `=` in place of the accumulation
type_counts_last(participants) ==
    IF participants = <<>> THEN <<>>
    ELSE LET seen == type_counts_last(SubSeq(participants, 1, Len(participants) - 1))
             p == participants[Len(participants)]
         IN IF \E i \in 1..Len(seen) : seen[i].label = display_type(p.participant_type)
            THEN [i \in 1..Len(seen) |->
                     IF seen[i].label = display_type(p.participant_type)
                     THEN [seen[i] EXCEPT !.count = p.count] ELSE seen[i]]
            ELSE Append(seen, [label |-> display_type(p.participant_type),
                               count |-> p.count])

RECURSIVE type_counts(_)
\* the dict type_counts of participant_types_display, as its items in
\* insertion order
type_counts(participants) ==
    IF participants = <<>> THEN <<>>
    ELSE LET seen == type_counts(SubSeq(participants, 1, Len(participants) - 1))
             p == participants[Len(participants)]
         IN IF \E i \in 1..Len(seen) : seen[i].label = display_type(p.participant_type)
            THEN [i \in 1..Len(seen) |->
                     IF seen[i].label = display_type(p.participant_type)
                     THEN [seen[i] EXCEPT !.count = @ + p.count] ELSE seen[i]]
            ELSE Append(seen, [label |-> display_type(p.participant_type),
                               count |-> p.count])

\* f"{count} {ptype}"
Fragment(count, label) == ToString(count) \o " " \o label

\* ActivityReport.participant_types_display
participant_types_display(participants) ==
    JoinStr(", ", [i \in 1..Len(type_counts(participants)) |->
                      Fragment(type_counts(participants)[i].count,
                               type_counts(participants)[i].label)])

\* ActivityReport.total_participants
total_participants(participants) == SumCounts(participants)

\* calendar.month_name[1..12], the values of %B
MonthNames ==
    <<"January", "February", "March", "April", "May", "June", "July", "August",
      "September", "October", "November", "December">>

\* datetime.strptime(s, "%Y-%m-%d").strftime("%d %B %Y"), for a string that
\* parses: day, month name and year, the month name as one element
StrfLong(s) ==
    Pad2(StrpDate(s).d) \o <<" ", MonthNames[StrpDate(s).m], " ">>
        \o Pad2(StrpDate(s).y \div 100) \o Pad2(StrpDate(s).y % 100)

\* PDFGeneratorService.date_filter: strftime("j F Y") has no directive and
\* returns its format; the bare except returns the argument
date_filter(date_str) ==
    IF ~TruthyS(date_str) THEN <<>>
    ELSE IF IsStr(date_str) /\ StrpDate(date_str).ok THEN <<"j", " ", "F", " ", "Y">>
    ELSE date_str

\* PDFGeneratorService.prepare_template_data, photos without their cap
prepare_template_data_uncapped(activity_data, options) ==
    [raised |-> FALSE, activity |-> activity_data.activity,
     speakers |-> activity_data.speakers, participants |-> activity_data.participants,
     report_preparers |-> activity_data.report_preparers,
     photos |-> IF GetOr(options, "include_photos", TRUE)
                THEN activity_data.photos ELSE <<>>,
     options |-> options]

\* PDFGeneratorService.prepare_template_data: end_date is parsed in the try
\* block of start_date, after it; `except: pass` ends the block
prepare_template_data(activity_data, options) ==
    LET activity == activity_data.activity
        start_ok == /\ TruthyS(activity.start_date)
                    /\ IsStr(activity.start_date)
                    /\ StrpDate(activity.start_date).ok
        end_ok == /\ start_ok
                  /\ TruthyS(activity.end_date)
                  /\ IsStr(activity.end_date)
                  /\ StrpDate(activity.end_date).ok
        formatted == (IF start_ok THEN {"start_date_formatted"} ELSE {})
                         \cup (IF end_ok THEN {"end_date_formatted"} ELSE {})
    IN [raised |-> FALSE,
        activity |-> [c \in DOMAIN activity \cup formatted |->
                         IF c = "start_date_formatted" THEN StrfLong(activity.start_date)
                         ELSE IF c = "end_date_formatted"
                         THEN StrfLong(activity.end_date)
                         ELSE activity[c]],
        speakers |-> [i \in 1..Len(activity_data.speakers) |->
                         [c \in DOMAIN activity_data.speakers[i] \cup {"display_name"} |->
                             IF c = "display_name" THEN activity_data.speakers[i].name
                             ELSE activity_data.speakers[i][c]]],
        participants |->
            [i \in 1..Len(activity_data.participants) |->
                [c \in DOMAIN activity_data.participants[i] \cup {"display_type"} |->
                    IF c = "display_type"
                    THEN display_type(activity_data.participants[i].participant_type)
                    ELSE activity_data.participants[i][c]]],
        report_preparers |-> activity_data.report_preparers,
        photos |-> IF GetOr(options, "include_photos", TRUE)
                   THEN SubSeq(activity_data.photos, 1,
                               IF Len(activity_data.photos) < 10
                               THEN Len(activity_data.photos) ELSE 10)
                   ELSE <<>>,
        options |-> options]

\* complete activity data as get_full_activity_data returns it, with the
\* options of the Generate PDF section.  Participant rows of up to
\* MaxDocParticipants rows, types repeated or not; 0..MaxStoredPhotos photos,
\* included, not included or with no such option; start and end dates that parse, with and without zero
\* padding, that do not, that are empty, None or no str.
DocInputs ==
    LET Base == [activity |-> [activity_type |-> "Workshop",
                               start_date |-> QDateToString(Today),
                               end_date |-> NoneSeq, venue |-> "Hall"],
                 speakers |-> <<[name |-> "Dr. A"]>>,
                 participants |-> <<[participant_type |-> "student", count |-> 40]>>,
                 report_preparers |-> <<[name |-> "B", designation |-> "Lecturer"]>>,
                 photos |-> <<>>,
                 options |-> [include_photos |-> TRUE]]
        Rows == {[participant_type |-> "faculty", count |-> 3],
                 [participant_type |-> "faculty", count |-> 2],
                 [participant_type |-> "student", count |-> 40],
                 [participant_type |-> "research_scholar", count |-> 2],
                 [participant_type |-> "alumni", count |-> 1]}
        Dates == {QDateToString(Today), QDateToString(Tomorrow),
                  <<"2", "0", "2", "5", "-", "3", "-", "5">>,
                  <<"0", "5", "/", "0", "3", "/", "2", "0", "2", "5">>,
                  <<>>, NoneSeq, NotAStr}
    IN {[Base EXCEPT !.participants = pa] :
            pa \in UNION {[1..k -> Rows] : k \in 0..MaxDocParticipants}}
       \cup {[Base EXCEPT !.photos = [i \in 1..k |->
                                        [photo_path |-> "p" \o ToString(i) \o ".jpg"]],
                          !.options = op] :
                k \in 0..MaxStoredPhotos,
                op \in {[include_photos |-> TRUE], [include_photos |-> FALSE],
                        [add_page_numbers |-> TRUE]}}
       \cup {[Base EXCEPT !.activity.start_date = sd, !.activity.end_date = ed] :
                sd \in Dates, ed \in Dates}

\* report.participant_types_display and report.total_participants
ParticipantTypesDisplay ==
    /\ outcome.fn = "none"
    /\ outcome' = [fn |-> "participant_types_display", raised |-> FALSE,
                   type_counts |-> type_counts(complete_data.participants),
                   display |-> participant_types_display(complete_data.participants),
                   total |-> total_participants(complete_data.participants)]
    /\ UNCHANGED <<store_vars, ui_vars, complete_data, pdf_form>>

\* pdf_generator.prepare_template_data(activity_data, options)
PrepareTemplateData ==
    /\ outcome.fn = "none"
    /\ outcome' = [fn |-> "prepare_template_data",
                   raised |-> prepare_template_data(complete_data,
                                                    complete_data.options).raised,
                   template_data |-> prepare_template_data(complete_data,
                                                           complete_data.options)]
    /\ UNCHANGED <<store_vars, ui_vars, complete_data, pdf_form>>

\* {{ activity.<field> | date }} in a template
DateFilter(field) ==
    /\ outcome.fn = "none"
    /\ outcome' = [fn |-> "date_filter", raised |-> FALSE, field |-> field,
                   value |-> date_filter(complete_data.activity[field])]
    /\ UNCHANGED <<store_vars, ui_vars, complete_data, pdf_form>>

InitDoc ==
    /\ StoreInit
    /\ UIInit
    /\ complete_data \in DocInputs
    /\ pdf_form = PdfIdle
    /\ outcome = [fn |-> "none", raised |-> FALSE, valid |-> TRUE, errors |-> <<>>,
                  warnings |-> <<>>]

NextDoc ==
    \/ ParticipantTypesDisplay
    \/ PrepareTemplateData
    \/ \E field \in {"start_date", "end_date"} : DateFilter(field)

SpecDoc == InitDoc /\ [][NextDoc]_vars

(***************************************************************************)
(* PDF generation: ui/forms/generate_pdf.py.  PDFGenerationWorker.run runs *)
(* in its own thread; its signals are queued for the interaction thread,   *)
(* which delivers them to the slots of GeneratePDFForm in the order sent.  *)
(* status_updated travels with progress_updated and is left out.           *)
(***************************************************************************)
MaxGenerations == 3

Progress(value) == [sig |-> "progress_updated", value |-> value]
Completed(success, message) ==
    [sig |-> "generation_completed", success |-> success, message |-> message]

\* one stretch of PDFGenerationWorker.run from position t.pc: up to the
\* load, the load, the HTML and the write, the rest, the end of the thread.
\* found: get_full_activity_data returned data; write_ok: open() and write()
\* did not raise.  returns: the `return` after "Activity not found".
run_from(t, found, write_ok, returns) ==
    CASE t.pc = "start" ->
            [thread |-> [t EXCEPT !.pc = "load"], emits |-> <<Progress(10)>>]
      [] t.pc = "load" ->
            IF found
            THEN [thread |-> [t EXCEPT !.pc = "write"], emits |-> <<Progress(30)>>]
            ELSE [thread |-> [pc |-> IF returns THEN "returned" ELSE "write",
                              emitted |-> t.emitted + 1],
                  emits |-> <<Completed(FALSE, "Activity not found")>>]
      [] t.pc = "write" ->
            IF found /\ write_ok
            THEN [thread |-> [t EXCEPT !.pc = "final"], emits |-> <<Progress(80)>>]
            ELSE [thread |-> [pc |-> "returned", emitted |-> t.emitted + 1],
                  emits |-> (IF found THEN <<Progress(80)>> ELSE <<>>)
                                \o <<Completed(FALSE, "Error generating PDF")>>]
      [] t.pc = "final" ->
            [thread |-> [pc |-> "returned", emitted |-> t.emitted + 1],
             emits |-> <<Progress(100), Completed(TRUE, "PDF generated successfully")>>]
      [] t.pc = "returned" ->
            [thread |-> [t EXCEPT !.pc = "finished"], emits |-> <<>>]

\* run without the `return` after "Activity not found"
run_falling_through(t, found, write_ok) == run_from(t, found, write_ok, FALSE)

\* PDFGenerationWorker.run
run(t, found, write_ok) == run_from(t, found, write_ok, TRUE)

\* GeneratePDFForm.start_pdf_generation
start_pdf_generation(f) ==
    [f EXCEPT !.button_enabled = FALSE, !.progress_visible = TRUE, !.progress = 0,
              !.worker_ref = TRUE, !.thread = [pc |-> "start", emitted |-> 0],
              !.started = @ + 1]

\* GeneratePDFForm.on_generation_completed, up to the message box
on_generation_completed(f, success, message) ==
    [f EXCEPT !.progress_visible = FALSE, !.button_enabled = TRUE,
              !.box = IF success THEN "Success" ELSE "Error",
              !.completed = @ + 1]

\* a click on generate_button, a file name chosen: GeneratePDFForm.generate_pdf
GeneratePdf ==
    /\ ~pdf_form.crashed
    /\ pdf_form.button_enabled
    /\ pdf_form.box = "none"
    /\ current_form_index = 7
    /\ form_activity_id[7] # NoId
    /\ pdf_form.started < MaxGenerations
    /\ pdf_form' = start_pdf_generation(pdf_form)
    /\ UNCHANGED <<store_vars, ui_vars, complete_data, outcome>>

\* the worker thread runs on
WorkerStep ==
    /\ ~pdf_form.crashed
    /\ pdf_form.thread.pc \in {"start", "load", "write", "final", "returned"}
    /\ \E write_ok \in BOOLEAN :
          LET step == run(pdf_form.thread,
                          get_activity(db, form_activity_id[7]).found, write_ok)
          IN pdf_form' = [pdf_form EXCEPT !.thread = step.thread,
                                          !.events = @ \o step.emits]
    /\ UNCHANGED <<store_vars, ui_vars, complete_data, outcome>>

\* the event loop of the interaction thread (that of an open message box
\* included) delivers the next queued signal to its slot
DeliverSignal ==
    /\ ~pdf_form.crashed
    /\ pdf_form.events # <<>>
    /\ LET ev == Head(pdf_form.events)
       IN IF ev.sig = "progress_updated"
          THEN pdf_form' = [pdf_form EXCEPT !.events = Tail(@), !.progress = ev.value]
          ELSE pdf_form' = [on_generation_completed(pdf_form, ev.success, ev.message)
                               EXCEPT !.events = Tail(@)]
    /\ UNCHANGED <<store_vars, ui_vars, complete_data, outcome>>

\* the message box is answered and on_generation_completed ends with
\* self.worker = None.  A QThread object that is given up before its thread
\* has ended may end the process.
DismissBox ==
    /\ ~pdf_form.crashed
    /\ pdf_form.box # "none"
    /\ \/ pdf_form' = [pdf_form EXCEPT !.box = "none", !.worker_ref = FALSE]
       \/ /\ pdf_form.thread.pc # "finished"
          /\ pdf_form' = [pdf_form EXCEPT !.box = "none", !.worker_ref = FALSE,
                                          !.crashed = TRUE]
    /\ UNCHANGED <<store_vars, ui_vars, complete_data, outcome>>

\* the Generate PDF section holds the id of an activity and its button is
\* enabled; the activity is stored, or its row has been deleted since
InitPdf ==
    /\ db \in {[activities |-> a,
                speakers |-> Stored("speakers", 1, <<GoodItems("speakers")[1]>>),
                participants |-> Stored("participants", 1, GoodItems("participants")),
                report_preparers |->
                    Stored("report_preparers", 1, <<GoodItems("report_preparers")[1]>>),
                activity_photos |->
                    Stored("activity_photos", 1, GoodItems("activity_photos"))] :
                  a \in {<<>>, <<ActivityRow([activity_type |-> "Workshop",
                                              start_date |-> QDateToString(Today)])>>}}
    /\ conn = IdleConn
    /\ current_activity_id = 1
    /\ current_form_index = 7
    /\ form_activity_id = [i \in FormIndexes |-> 1]
    /\ general_form = ClearedGeneral
    /\ speaker_widgets = <<EmptySpeaker>>
    /\ participant_widgets = <<EmptyParticipant>>
    /\ preparer_widgets = <<EmptyPreparer>>
    /\ photos = <<>>
    /\ synopsis_form = ClearedSynopsis
    /\ profile_widgets = <<>>
    /\ ret = [op |-> "init", ok |-> TRUE, msg |-> "", id |-> NoId, before |-> NoId,
              n |-> 0]
    /\ complete_data = <<>>
    /\ outcome = [fn |-> "none", raised |-> FALSE, valid |-> TRUE, errors |-> <<>>,
                  warnings |-> <<>>]
    /\ pdf_form = [PdfIdle EXCEPT !.button_enabled = TRUE]

NextPdf ==
    \/ GeneratePdf
    \/ WorkerStep
    \/ DeliverSignal
    \/ DismissBox

\* the thread of a started worker is scheduled, the event loop delivers the
\* queued signals, and the modal message box is answered
SpecPdf ==
    /\ InitPdf
    /\ [][NextPdf]_vars
    /\ WF_vars(WorkerStep)
    /\ WF_vars(DeliverSignal)
    /\ WF_vars(DismissBox)

\* A session in which the sections other than Photos were saved before the
\* identifier reached the Generate PDF section: the activity is stored with a
\* speaker, participants, a report preparer and k photos, and
\* broadcast_activity_id has passed its identifier to the eight forms (the
\* third handler run, after the edit and the save of General Info).
InitGen ==
    \E k \in {0, 2} :
        LET d == [activities |-> <<ActivityRow([activity_type |-> "Workshop",
                                               start_date |-> QDateToString(Today)])>>,
                  speakers |-> Stored("speakers", 1, <<GoodItems("speakers")[1]>>),
                  participants |-> Stored("participants", 1, GoodItems("participants")),
                  report_preparers |->
                      Stored("report_preparers", 1, <<GoodItems("report_preparers")[1]>>),
                  activity_photos |->
                      Stored("activity_photos", 1,
                             SubSeq(GoodItems("activity_photos"), 1, k))]
            F == broadcast_activity_id(
                     [ids |-> [i \in FormIndexes |-> NoId],
                      general |-> ClearedGeneral,
                      speakers |-> <<EmptySpeaker>>,
                      participants |-> <<EmptyParticipant>>,
                      preparers |-> <<EmptyPreparer>>, photos |-> <<>>,
                      synopsis |-> ClearedSynopsis, profiles |-> <<>>], d, 1)
        IN /\ db = d
           /\ conn = IdleConn
           /\ current_activity_id = 1
           /\ current_form_index = 0
           /\ form_activity_id = F.ids
           /\ general_form = F.general
           /\ speaker_widgets = F.speakers
           /\ participant_widgets = F.participants
           /\ preparer_widgets = F.preparers
           /\ photos = F.photos
           /\ synopsis_form = F.synopsis
           /\ profile_widgets = F.profiles
           /\ ret = [op |-> "broadcast_activity_id", ok |-> TRUE, msg |-> "",
                     id |-> 1, before |-> NoId, n |-> 3]
           /\ complete_data = <<>>
           /\ outcome = [fn |-> "none", raised |-> FALSE, valid |-> TRUE,
                         errors |-> <<>>, warnings |-> <<>>]
           /\ pdf_form = generate_set_activity_id(PdfIdle, d, 1)

\* the Generate PDF section and its worker, together with the handlers that
\* change identifiers and the Speaker Profiles and Photos sections
NextGen ==
    \/ GeneratePdf
    \/ WorkerStep
    \/ DeliverSignal
    \/ DismissBox
    \/ \E activity_id \in ActivityIds : BroadcastActivityId(activity_id)
    \/ \E activity_id \in ActivityIds : LoadActivity(activity_id)
    \/ CreateNewActivity
    \/ \E index \in {5, 6, 7} : ShowForm(index)
    \/ \E photo_paths \in PhotoPaths : AddPhotos(photo_paths)
    \/ \E i \in {5, 6} : SaveData(i)

SpecGen == InitGen /\ [][NextGen]_vars

(***************************************************************************)
(* Claims about the Record Store (checked under SpecStore).                *)
(***************************************************************************)

\* C1: for each of the four child collections and every activity A, once
\* save_<collection>(A, C) has returned, get_<collection>(A) is exactly the
\* rows of C in the order of C, and holds no row of an earlier save for A.
C1_SaveThenGet ==
    conn.pc = "committed" =>
        /\ get_rows(conn.table, conn.activity_id)
               = Stored(conn.table, conn.activity_id, conn.items)
        /\ conn.table = "speakers" =>
               get_speakers(conn.activity_id)
                   = [i \in 1..Len(conn.items) |->
                          SpeakerRow(conn.activity_id, conn.items[i])]
        /\ conn.table = "participants" =>
               get_participants(conn.activity_id)
                   = [i \in 1..Len(conn.items) |->
                          ParticipantRow(conn.activity_id, conn.items[i])]
        /\ conn.table = "report_preparers" =>
               get_report_preparers(conn.activity_id)
                   = [i \in 1..Len(conn.items) |->
                          PreparerRow(conn.activity_id, conn.items[i])]
        /\ conn.table = "activity_photos" =>
               get_activity_photos(conn.activity_id)
                   = [i \in 1..Len(conn.items) |->
                          PhotoRow(conn.activity_id, conn.items[i])]

\* a two-row save has replaced a different, non-empty collection of the
\* same activity
C1_Witness ==
    /\ conn.pc = "committed"
    /\ Len(conn.items) = 2
    /\ SelectSeq2(conn.pre, conn.activity_id) # <<>>
    /\ SelectSeq2(conn.pre, conn.activity_id)
           # get_rows(conn.table, conn.activity_id)

\* C2: a child save is atomic.  While the call runs, and after it failed or
\* was interrupted at any statement, a read returns the rows stored before
\* the call; after it returned, a read returns exactly C.
C2_Atomic ==
    conn.pc # "idle" =>
        IF conn.pc = "committed"
        THEN get_rows(conn.table, conn.activity_id)
                 = Stored(conn.table, conn.activity_id, conn.items)
        ELSE /\ db[conn.table] = conn.pre
             /\ get_rows(conn.table, conn.activity_id)
                    = SelectSeq2(conn.pre, conn.activity_id)

\* a save failed after its DELETE and one INSERT: the writing connection saw
\* the old rows gone and part of C in place
C2_Witness ==
    /\ conn.pc = "rolled_back"
    /\ conn.pos > 1
    /\ SelectSeq2(conn.pre, conn.activity_id) # <<>>
    /\ SelectSeq2(conn.work, conn.activity_id) # <<>>
    /\ SelectSeq2(conn.work, conn.activity_id)
           # SelectSeq2(conn.pre, conn.activity_id)

(***************************************************************************)
(* Claims about the section controller (checked under Spec).               *)
(***************************************************************************)

\* C3: right after the first successful GeneralInfoForm.save_data (the form
\* had no activity id and save_activity returned a new one),
\* MainWindow.current_activity_id and the activity_id of the seven other
\* sections all equal the new id.
C3_FirstSaveDelivered ==
    ret.op = "general_save_data" /\ ret.ok /\ ret.before = NoId =>
        /\ form_activity_id[0] = ret.id
        /\ current_activity_id = ret.id
        /\ \A i \in 1..7 : form_activity_id[i] = ret.id

\* C4: a show_form is refused only on General Info without an activity id,
\* and then General Info stays the current section; hence whenever the
\* current section is not General Info the activity has an identifier.
C4_NavigationGuard ==
    /\ ret.op = "show_form" /\ ~ret.ok =>
           current_form_index = 0 /\ form_activity_id[0] = NoId
    /\ current_form_index # 0 => form_activity_id[0] # NoId

\* C5: broadcast_activity_id(id) twice in a row leaves every section (its
\* activity_id and its in-memory collection) as broadcast_activity_id(id)
\* once does.
C5_BroadcastIdempotent ==
    \A activity_id \in 1..Len(db.activities) :
        broadcast_activity_id(broadcast_activity_id(Forms, db, activity_id),
                              db, activity_id)
            = broadcast_activity_id(Forms, db, activity_id)

\* C6: save_data of a child section (Speakers, Participants, Synopsis,
\* Preparers, Speaker Profiles, Photos) whose activity_id is unset, whether
\* run from the save button or by auto_save, returns False at its "No
\* Activity" guard and leaves the database unchanged.
C6_NoSaveWithoutActivity ==
    [][\A i \in 1..6 :
          (SaveData(i) \/ (AutoSave /\ current_activity_id # NoId
                                    /\ current_form_index = i))
          /\ form_activity_id[i] = NoId
          => /\ db' = db
             /\ ~ret'.ok
             /\ ret'.msg = "No Activity"]_vars

\* the Speakers form, filled in validly, was saved while it had no activity id
C6_Witness ==
    /\ ret.op = "child_save_data"
    /\ current_form_index = 1
    /\ ret.before = NoId
    /\ ~ret.ok
    /\ speakers_validate_form(speaker_widgets) = <<>>
    /\ db.speakers = <<>>

(***************************************************************************)
(* Claims about the validators, under SpecVal.                             *)
(***************************************************************************)
\* C7: aggregate validation is invalid, with the photo error among its
\* blocking errors, whenever fewer than 2 photos are stored, and reports no
\* photo error at 2 photos or more.
C7_PhotoFloor ==
    outcome.fn \in {"validate_complete_activity_report", "validate_minimum_requirements"} =>
        IF Len(complete_data.photos) < 2
        THEN /\ ~outcome.valid
             /\ \E i \in 1..Len(outcome.errors) :
                    outcome.errors[i].text
                        = "At least 2 activity photos are required for PDF generation"
        ELSE \A i \in 1..Len(outcome.errors) : outcome.errors[i].section # "photos"

\* C8: the blocking errors of aggregate validation are ordered by section:
\* activity, then speakers, then participants, then preparers, then photos.
C8_SectionOrder ==
    outcome.fn \in {"validate_complete_activity_report", "validate_minimum_requirements"} =>
        LET rank == [activity |-> 1, speakers |-> 2, participants |-> 3,
                     report_preparers |-> 4, photos |-> 5]
        IN \A i \in 1..Len(outcome.errors), j \in 1..Len(outcome.errors) :
               i < j => rank[outcome.errors[i].section] <= rank[outcome.errors[j].section]

\* C9: with start_date and end_date both well formed, activity validation
\* reports the date-order error iff end_date is before start_date, whatever
\* start_time and end_time are; and when no other rule is violated it fails
\* iff end_date is before start_date.  The same holds of the form's check.
C9_DateOrder ==
    /\ outcome.fn = "validate_activity_data"
       /\ StrpDate(complete_data.activity.start_date).ok
       /\ StrpDate(complete_data.activity.end_date).ok =>
           LET a == complete_data.activity
               start == StrpDate(a.start_date)
               end == StrpDate(a.end_date)
               late == DateOrd(end) < DateOrd(start)
               reported == \E i \in 1..Len(outcome.errors) :
                               outcome.errors[i].text = "End date cannot be before start date"
               others_ok ==
                   /\ Truthy(a.activity_type)
                   /\ TruthyS(a.start_time) => StrpTime(a.start_time).ok
                   /\ TruthyS(a.end_time) => StrpTime(a.end_time).ok
                   /\ ~(/\ DateOrd(end) = DateOrd(start)
                        /\ TruthyS(a.start_time) /\ TruthyS(a.end_time)
                        /\ TimeOrd(StrpTime(a.end_time)) < TimeOrd(StrpTime(a.start_time)))
                   /\ ~(a.sub_category = "Other" /\ ~Truthy(a.sub_category_other))
           IN /\ reported <=> late
              /\ others_ok => (~outcome.valid <=> late)
    /\ outcome.fn = "validate_form" =>
           ((\E i \in 1..Len(outcome.errors) :
                 outcome.errors[i].text = "End date cannot be before start date")
            <=> DateOrd(general_form.end_date) < DateOrd(general_form.start_date))

\* an end date written without zero padding and before the start date, with
\* the times in reverse order: the date-order error is the only one
C9_Witness ==
    /\ outcome.fn = "validate_activity_data"
    /\ complete_data.activity.start_date = QDateToString(Today)
    /\ complete_data.activity.end_date = <<"2", "0", "2", "5", "-", "3", "-", "4">>
    /\ complete_data.activity.start_time = QTimeToString(QTime(10, 0))
    /\ complete_data.activity.end_time = QTimeToString(QTime(9, 0))
    /\ outcome.errors = <<Err("activity", "End date cannot be before start date")>>

\* C10: with well-formed dates and times, activity validation reports the
\* time-order error iff start_date and end_date are the same day, both times
\* are present and end_time is before start_time.
C10_TimeOrder ==
    /\ outcome.fn = "validate_activity_data"
    /\ StrpDate(complete_data.activity.start_date).ok
    /\ StrpDate(complete_data.activity.end_date).ok
    /\ TruthyS(complete_data.activity.start_time) =>
           StrpTime(complete_data.activity.start_time).ok
    /\ TruthyS(complete_data.activity.end_time) =>
           StrpTime(complete_data.activity.end_time).ok
    => LET a == complete_data.activity
       IN (\E i \in 1..Len(outcome.errors) :
               outcome.errors[i].text = "End time cannot be before start time")
          <=> /\ DateOrd(StrpDate(a.start_date)) = DateOrd(StrpDate(a.end_date))
              /\ TruthyS(a.start_time) /\ TruthyS(a.end_time)
              /\ TimeOrd(StrpTime(a.end_time)) < TimeOrd(StrpTime(a.start_time))

\* C11: every field validator of ValidationService returns an outcome for
\* every input, None and values of another type included; none raises.
C11_NeverRaises ==
    outcome.fn \in {"validate_date", "validate_time", "validate_date_range",
                    "validate_time_range", "validate_email", "validate_phone_number",
                    "validate_activity_data", "validate_speaker_data",
                    "validate_participant_data", "validate_report_preparer_data"}
        => ~outcome.raised

\* C14: the lifecycle of an activity row.  No step removes an activity row.
\* Apart from create_new_activity, load_activity and broadcast_activity_id,
\* no step changes an activity id a section holds, no step adds an activity
\* row once General Info holds an id, and a successful save_data of General
\* Info or of Synopsis (save button or auto_save) writes the row of the id
\* the section holds and leaves every other activity row as it was.
LifecycleStep(release) ==
    /\ Len(db'.activities) >= Len(db.activities)
    /\ ret'.op \notin release =>
         /\ \A i \in FormIndexes :
                form_activity_id[i] # NoId => form_activity_id'[i] = form_activity_id[i]
         /\ form_activity_id[0] # NoId => Len(db'.activities) = Len(db.activities)
         /\ \A i \in {0, 3} :
                /\ ret'.op \in {"general_save_data", "child_save_data", "auto_save"}
                /\ ret'.ok
                /\ current_form_index = i
                /\ form_activity_id[i] # NoId
                => /\ ret'.id = form_activity_id[i]
                   /\ \A a \in 1..Len(db.activities) :
                          a # form_activity_id[i]
                              => db'.activities[a] = db.activities[a]

C14_Lifecycle ==
    [][LifecycleStep({"create_new_activity", "load_activity",
                      "broadcast_activity_id"})]_vars

\* the statement with create_new_activity as the only operation that lets
\* the sections take another activity id
C14_UntilCreateNew == [][LifecycleStep({"create_new_activity"})]_vars

\* auto_save has just saved the Synopsis section of a stored activity, which
\* General Info created: the text is in that row and there is still one row
C14_Witness ==
    /\ ret.op = "auto_save"
    /\ ret.ok
    /\ current_form_index = 3
    /\ ret.before # NoId
    /\ ret.id = ret.before
    /\ form_activity_id[0] = ret.before
    /\ Len(db.activities) = 1
    /\ db.activities[ret.before].highlights # Null
    /\ db.activities[ret.before].highlights = synopsis_get_form_data(synopsis_form).highlights

\* C15: save_data of every section (save button, auto_save, closeEvent)
\* returns True or False after one of its message boxes and no exception
\* leaves it; when it returns False (validation failed, the store refused,
\* no activity) the database is exactly as it was before the call.
SaveOutcomes == {"Success", "Validation Error", "No Activity", "Error", "Activity not found"}

C15_SaveReturns ==
    [][/\ \/ ret'.op \in {"general_save_data", "child_save_data"}
          \/ /\ ret'.op = "auto_save"
             /\ current_activity_id # NoId
             /\ HasFormMethods(current_form_index)
          => /\ ret'.ok \in BOOLEAN
             /\ ret'.msg \in SaveOutcomes
             /\ ret'.ok <=> ret'.msg = "Success"
             /\ ~ret'.ok => db' = db
       /\ ret'.op = "close_accepted" /\ ret'.msg = "Save"
          => LET saves == close_event_from(0, Forms, db)
             IN /\ Len(saves) = 7
                /\ \A k \in 1..Len(saves) :
                      /\ saves[k].ok \in BOOLEAN
                      /\ saves[k].msg \in SaveOutcomes
                      /\ saves[k].ok <=> saves[k].msg = "Success"
                      /\ ~saves[k].ok => saves[k].db = saves[k].before]_vars

\* the Report Prepared By section, holding the id of a stored activity and a
\* widget without a name, was saved: validation failed, nothing was stored
C15_Witness ==
    /\ ret.op = "child_save_data"
    /\ current_form_index = 4
    /\ ret.before # NoId
    /\ ret.before \in 1..Len(db.activities)
    /\ ~ret.ok
    /\ ret.msg = "Validation Error"
    /\ preparers_validate_form(preparer_widgets) # <<>>
    /\ db.report_preparers = <<>>

(***************************************************************************)
(* Claims about the Record Store, continued (checked under SpecStore).     *)
(***************************************************************************)

\* C16: every statement of a child save for activity A (its DELETE, its
\* INSERTs, its commit or its rollback) leaves alone the activity rows, the
\* three other child tables, and in its own table the rows of every other
\* activity, in their order.
C16_SaveIsLocal ==
    [][conn' # conn =>
          /\ db'.activities = db.activities
          /\ \A t \in ChildTables \ {conn'.table} : db'[t] = db[t]
          /\ \A a \in ActivityIds \ {conn'.activity_id} :
                /\ SelectSeq2(db'[conn'.table], a) = SelectSeq2(db[conn'.table], a)
                /\ conn'.pc = "committed" =>
                       SelectSeq2(db'[conn'.table], a) = SelectSeq2(conn.pre, a)]_vars

\* a save committed rows for one activity into a table that holds rows of
\* another activity, with activity rows stored
C16_Witness ==
    /\ conn.pc = "committed"
    /\ conn.items # <<>>
    /\ db.activities # <<>>
    /\ \E a \in ActivityIds \ {conn.activity_id} :
           /\ SelectSeq2(db[conn.table], a) # <<>>
           /\ SelectSeq2(db[conn.table], a) = SelectSeq2(conn.pre, a)
    /\ get_rows(conn.table, conn.activity_id)
           = Stored(conn.table, conn.activity_id, conn.items)

(***************************************************************************)
(* Claims about the document assembly (checked under SpecDoc).             *)
(***************************************************************************)

\* the "{count} {label}" fragments of the rows, one per row, joined
PerRowDisplay(participants) ==
    JoinStr(", ", [i \in 1..Len(participants) |->
                      Fragment(participants[i].count,
                               display_type(participants[i].participant_type))])

\* C17: participant_types_display joins with ", " one "{count} {label}"
\* fragment per participant type that occurs in the rows, in the order in
\* which the types first occur, the count of a fragment being the sum of
\* the counts of the rows of its type; the fragment counts sum to
\* total_participants, the sum of all counts.  For rows of pairwise
\* different types this is one fragment per row, in stored order.
C17_DisplayPerType ==
    outcome.fn = "participant_types_display" =>
        LET P == complete_data.participants
            T == outcome.type_counts
            Label(i) == display_type(P[i].participant_type)
            First(l) == CHOOSE i \in 1..Len(P) :
                            Label(i) = l /\ \A j \in 1..(i - 1) : Label(j) # l
            RowsOf(l) == LET Is(p) == display_type(p.participant_type) = l
                         IN SelectSeq(P, Is)
        IN /\ outcome.display
                  = JoinStr(", ", [i \in 1..Len(T) |-> Fragment(T[i].count, T[i].label)])
           /\ {T[i].label : i \in 1..Len(T)} = {Label(i) : i \in 1..Len(P)}
           /\ \A i, j \in 1..Len(T) : i < j => First(T[i].label) < First(T[j].label)
           /\ \A i \in 1..Len(T) : T[i].count = SumCounts(RowsOf(T[i].label))
           /\ SumCounts(T) = outcome.total
           /\ outcome.total = SumCounts(P)
           /\ (\A i, j \in 1..Len(P) : i # j => Label(i) # Label(j))
                  => outcome.display = PerRowDisplay(P)

\* the statement with one fragment per stored row, for every list of rows
C17_DisplayPerRow ==
    outcome.fn = "participant_types_display" =>
        /\ Len(outcome.type_counts) = Len(complete_data.participants)
        /\ outcome.display = PerRowDisplay(complete_data.participants)
        /\ SumCounts(outcome.type_counts) = outcome.total
        /\ outcome.total = SumCounts(complete_data.participants)

\* faculty 3, student 40, research_scholar 2
C17_Witness ==
    /\ outcome.fn = "participant_types_display"
    /\ complete_data.participants
           = <<[participant_type |-> "faculty", count |-> 3],
               [participant_type |-> "student", count |-> 40],
               [participant_type |-> "research_scholar", count |-> 2]>>
    /\ outcome.display = "3 Faculty, 40 Students, 2 Research Scholars"
    /\ outcome.total = 45

\* C18: with photos included (the option set or absent), the photo list of
\* the assembled render model is the first min(n, 10) of the n stored
\* photos, in stored order; with the option off it is empty.  It never has
\* more than 10 entries.
C18_PhotoCap ==
    outcome.fn = "prepare_template_data" =>
        LET stored == complete_data.photos
            shown == outcome.template_data.photos
        IN /\ Len(shown) <= 10
           /\ \A i \in 1..Len(shown) : shown[i] = stored[i]
           /\ IF GetOr(complete_data.options, "include_photos", TRUE)
              THEN Len(shown) = Len(stored) \/ (Len(stored) > 10 /\ Len(shown) = 10)
              ELSE shown = <<>>

\* the statement for every render model, whatever its options
C18_PhotoCapAlways ==
    outcome.fn = "prepare_template_data" =>
        LET stored == complete_data.photos
            shown == outcome.template_data.photos
        IN /\ Len(shown) <= 10
           /\ \A i \in 1..Len(shown) : shown[i] = stored[i]
           /\ Len(shown) = Len(stored) \/ (Len(stored) > 10 /\ Len(shown) = 10)

\* more than 10 photos are stored and the render model has the first 10
C18_Witness ==
    /\ outcome.fn = "prepare_template_data"
    /\ Len(complete_data.photos) > 10
    /\ GetOr(complete_data.options, "include_photos", TRUE)
    /\ Len(outcome.template_data.photos) = 10
    /\ outcome.template_data.photos[10] = complete_data.photos[10]
    /\ outcome.template_data.photos[10].photo_path = "p10.jpg"

\* C19: assembling the render model never raises on a date.  Each of
\* start_date and end_date is left as stored; one that does not parse as
\* YYYY-MM-DD gets no formatted value (the stored string is what is shown),
\* and one that parses gets its formatted value whether or not the other
\* date, when there is one, parses.  The date filter likewise returns an unparseable string as
\* it is.
C19_DateFallback ==
    LET Parses(raw) == TruthyS(raw) /\ IsStr(raw) /\ StrpDate(raw).ok
    IN /\ outcome.fn = "prepare_template_data" =>
              /\ ~outcome.raised
              /\ \A field \in {"start_date", "end_date"} :
                    LET raw == complete_data.activity[field]
                        other == complete_data.activity[
                                     IF field = "start_date" THEN "end_date"
                                     ELSE "start_date"]
                        shown == outcome.template_data.activity
                        formatted == field \o "_formatted"
                    IN /\ shown[field] = raw
                       /\ ~Parses(raw) => formatted \notin DOMAIN shown
                       /\ Parses(raw) /\ TruthyS(other)
                              => /\ formatted \in DOMAIN shown
                                 /\ shown[formatted] = StrfLong(raw)
       /\ outcome.fn = "date_filter" =>
              /\ ~outcome.raised
              /\ LET raw == complete_data.activity[outcome.field]
                 IN TruthyS(raw) /\ ~Parses(raw) => outcome.value = raw

(***************************************************************************)
(* Claims about the PDF generation (checked under SpecPdf).                *)
(***************************************************************************)

C21_Constructed ==
    outcome.fn = "MainWindow" =>
        /\ ~outcome.raised
        /\ outcome.window.current_form_index = 0
        /\ outcome.window.visible = {0}
        /\ outcome.window.current_activity_id = NoId
        /\ \A i \in FormIndexes : outcome.window.form_activity_id[i] = NoId

(***************************************************************************)
(* Claims about the participant count (SpecVal)                            *)
(***************************************************************************)

\* C22: validate_participant_data, called with a participant that has a type,
\* returns no error exactly when the count is an int with 1 <= count <= 9999:
\* a count of 0, a negative count and a count of 10000 or more each get an
\* error, 1 and 9999 get none; a count that is no int is never accepted.
C22_CountRange ==
    outcome.fn = "validate_participant_data" =>
        LET p == complete_data.participants[1]
            is_int == GetOr(p, "count_type", "int") = "int"
            count == GetOr(p, "count", 0)
        IN /\ Truthy(Get(p, "participant_type"))
           /\ (outcome.errors = <<>> /\ ~outcome.raised)
                  <=> (is_int /\ 1 <= count /\ count <= 9999)
           /\ is_int /\ count <= 0 =>
                  outcome.errors
                      = <<Err("participants", "Participant count must be a positive integer")>>
           /\ is_int /\ count > 9999 =>
                  outcome.errors
                      = <<Err("participants", "Participant count cannot exceed 9999")>>

\* the largest accepted count was validated
C22_Witness ==
    /\ outcome.fn = "validate_participant_data"
    /\ complete_data.participants[1].count = 9999
    /\ outcome.errors = <<>>

(***************************************************************************)
(* Claims about the two writers of the activity row (Spec)                 *)
(***************************************************************************)

\* C23: a successful save of General Info (button or auto-save) on an
\* activity that is stored leaves the highlights and the summary of its row
\* as they were, and a successful save of Synopsis leaves activity_type,
\* sub-category, dates, times and venue of the row as they were.
C23_OwnFields ==
    [][LET a == form_activity_id[current_form_index]
           stored == a \in 1..Len(db.activities)
           saved == ret'.op \in {"general_save_data", "child_save_data", "auto_save"}
                    /\ ret'.ok
       IN /\ saved /\ current_form_index = 0 /\ stored =>
                \A c \in {"highlights", "summary"} :
                    db'.activities[a][c] = db.activities[a][c]
          /\ saved /\ current_form_index = 3 /\ stored =>
                \A c \in (TextColumns \cup DateColumns) \ {"highlights", "summary"} :
                    db'.activities[a][c] = db.activities[a][c]]_vars

(***************************************************************************)
(* Claims about loading a stored collection into its section (Spec)        *)
(***************************************************************************)

\* C24: when load_activity or broadcast_activity_id has loaded an activity
\* with N >= 1 stored speakers (report preparers), N within the section's
\* maximum and every stored text present, the Speakers (Report Prepared By)
\* section holds exactly those N rows in stored order and no other row.
C24_LoadReplaces ==
    [][ret'.op \in {"load_activity", "broadcast_activity_id"} =>
          LET speakers == SelectSeq2(db.speakers, ret'.id)
              preparers == SelectSeq2(db.report_preparers, ret'.id)
          IN /\ /\ speakers # <<>> /\ Len(speakers) <= MaxSpeakers
                /\ \A i \in 1..Len(speakers) : speakers[i].title_position # Null
                => speakers_get_form_data(speaker_widgets')
                       = [i \in 1..Len(speakers) |->
                             [name |-> speakers[i].name,
                              title_position |-> speakers[i].title_position]]
             /\ /\ preparers # <<>> /\ Len(preparers) <= MaxPreparers
                => preparers_get_form_data(preparer_widgets')
                       = [i \in 1..Len(preparers) |->
                             [name |-> preparers[i].name,
                              designation |-> preparers[i].designation]]]_vars

(***************************************************************************)
(* Claims about starting a new activity (Spec)                             *)
(***************************************************************************)

\* C25: after create_new_activity neither the window nor any section has an
\* activity id, General Info and Synopsis are cleared, Speakers,
\* Participants and Report Prepared By hold one fresh empty row each, and
\* Speaker Profiles and Photos hold nothing.
C25_FreshSections ==
    ret.op = "create_new_activity" =>
        /\ current_activity_id = NoId
        /\ \A i \in FormIndexes : form_activity_id[i] = NoId
        /\ general_form = ClearedGeneral
        /\ synopsis_form = ClearedSynopsis
        /\ speaker_widgets = <<EmptySpeaker>>
        /\ participant_widgets = <<EmptyParticipant>>
        /\ preparer_widgets = <<EmptyPreparer>>
        /\ profile_widgets = <<>>
        /\ photos = <<>>

(***************************************************************************)
(* Claims about the readiness checks (SpecVal)                             *)
(***************************************************************************)

\* C26: on an aggregate whose participant counts are ints, the four
\* readiness checks (ValidationService.validate_complete_activity_report,
\* CompleteActivityReport.validate_minimum_requirements,
\* PDFGeneratorService.validate_requirements and
\* GeneratePDFForm.validate_activity_data) give the same verdict.
C26_SameVerdict ==
    /\ outcome.fn \in {"validate_complete_activity_report",
                       "validate_minimum_requirements", "validate_requirements",
                       "GeneratePDFForm.validate_activity_data"}
    /\ \A i \in 1..Len(complete_data.participants) :
           "count_type" \notin DOMAIN complete_data.participants[i]
    => LET verdicts == {validate_complete_activity_report(complete_data).valid,
                        validate_minimum_requirements(complete_data).valid,
                        validate_requirements(complete_data).valid,
                        form_validate_activity_data(complete_data).valid}
       IN Cardinality(verdicts) = 1

(***************************************************************************)
(* Claims about the Generate PDF section (SpecGen)                         *)
(***************************************************************************)

\* C27: when the Generate PDF section is opened (show_form(7)) for an
\* activity whose stored aggregate passes the section's checks, and no
\* generation is under way, generation is enabled afterwards; and whenever
\* generation is enabled, the section has an activity id and the stored
\* aggregate passes the section's checks.
C27_ReadyWhenSaved ==
    [][LET a == form_activity_id[7]
           passes(d, id) ==
               /\ id # NoId
               /\ get_activity(d, id).found
               /\ form_validate_activity_data(get_full_activity_data(d, id)).valid
       IN /\ /\ ret'.op = "show_form" /\ ret'.n # ret.n
             /\ current_form_index' = 7
             /\ passes(db, a)
             /\ pdf_form.thread.pc = "none" /\ pdf_form.box = "none"
             => pdf_form'.button_enabled
          /\ pdf_form'.button_enabled => passes(db', form_activity_id'[7])]_vars

\* C28: while a PDF worker is in flight (start_pdf_generation has run and
\* the worker's generation_completed has not been handled yet) generation
\* stays disabled, whatever broadcast_activity_id, load_activity or
\* create_new_activity do meanwhile; and start_pdf_generation runs, and
\* assigns the worker reference, only when no worker is in flight.
C28_OneWorker ==
    [][/\ pdf_form'.started > pdf_form'.completed => ~pdf_form'.button_enabled
       /\ pdf_form'.started # pdf_form.started
              => pdf_form.started = pdf_form.completed]_vars

\* C29: SpeakerProfileForm.save_data, called by the save button while the
\* section has an activity id and shows the synced speakers, returns True.
C29_ProfilesSaved ==
    /\ ret.op = "child_save_data"
    /\ current_form_index = 5
    /\ form_activity_id[5] # NoId
    /\ profile_widgets # <<>>
    => ret.ok

(***************************************************************************)
(* Claims about references between the tables (SpecStore)                  *)
(***************************************************************************)

\* C30: every committed row of speakers, participants, report_preparers and
\* activity_photos has the activity_id of a row of activities; a child save
\* for an identifier without an activities row stores nothing.
C30_ReferentialIntegrity ==
    \A table \in ChildTables :
        \A i \in 1..Len(db[table]) :
            db[table][i].activity_id \in 1..Len(db.activities)

====
